---- MODULE Spec2Model ----
(***************************************************************************)
(* A model of bwt's util module:                                           *)
(*   - util/xpub.rs: the SLIP-132 [xyz]pub codec (XyzPubKey::from_str, its  *)
(*     string serializer), the version table, and the bridge between an    *)
(*     XyzPubKey and a single-key ranged p2*pkh output descriptor;         *)
(*   - util/mod.rs: the debounce_sender background thread;                 *)
(*   - util/bitcoincore_ext.rs: the wait_blockchain_sync polling loop.     *)
(* Byte strings are sequences of 0..255.  A base58check string is modelled *)
(* by the payload it decodes to plus whether its checksum verifies.        *)
(***************************************************************************)
EXTENDS Integers, Sequences, FiniteSets, TLC

VARIABLES
    op,        \* the operation that produced the current state
    text,      \* the string last handed to XyzPubKey::from_str
    res,       \* the Result that from_str returned for text
    out,       \* the string the serializer produced for the current key
    xyz,       \* the current XyzPubKey (Option)
    desc,      \* the current descriptor (Option)
    desc_of,   \* the [key, path] desc was built from by as_descriptor (Option)
    conv,      \* what try_from_desc returned for desc
    desc_rt,   \* the descriptor as_descriptor rebuilt from conv (Option)
    addr,      \* the addresses derived by the last DeriveAddress
    duration,  \* the duration debounce_sender was called with, in seconds
    pc,        \* debounce thread: position in the thread's closure
    queue,     \* debounce thread: events waiting in the debounce channel
    elapsed,   \* debounce thread: time since tick_start (saturates at duration)
    waited,    \* debounce thread: time spent in the current recv_timeout
    tx_alive,  \* the returned debounce_tx has not been dropped
    rx_alive,  \* the receiver of forward_tx has not been dropped
    sent,      \* events sent on debounce_tx so far
    received,  \* events the thread took out of the channel so far
    fresh,     \* events received since the previous emission
    forwarded, \* events sent on forward_tx so far
    cause,     \* why the thread reached forward_tx.send: record of the test it passed
    pending,   \* an event was sent and no emission has followed it yet
    sync_pc,          \* wait_blockchain_sync: position in the loop
    sync_info,        \* wait_blockchain_sync: the info of the current iteration (Option)
    sync_result,      \* wait_blockchain_sync: what the call returned
    sync_polls,       \* wait_blockchain_sync: get_blockchain_info calls so far
    progress_tx,      \* wait_blockchain_sync: a progress sender was supplied
    progress_alive,   \* the receiver of the progress sender has not been dropped
    progress_sent     \* Progress::Sync messages delivered so far

codec_vars == <<op, text, res, out, xyz, desc, desc_of, conv, desc_rt, addr>>
deb_vars == <<duration, pc, queue, elapsed, waited, tx_alive, rx_alive, sent, received,
              fresh, forwarded, cause, pending>>
sync_vars == <<sync_pc, sync_info, sync_result, sync_polls, progress_tx,
               progress_alive, progress_sent>>
vars == <<op, text, res, out, xyz, desc, desc_of, conv, desc_rt, addr,
          duration, pc, queue, elapsed, waited, tx_alive, rx_alive, sent, received,
          fresh, forwarded, cause, pending,
          sync_pc, sync_info, sync_result, sync_polls, progress_tx,
          progress_alive, progress_sent>>

None == [tag |-> "None"]
Some(v) == [tag |-> "Some", val |-> v]
Ok(v) == [tag |-> "Ok", val |-> v]
Err(e) == [tag |-> "Err", err |-> e]

\* ------------------------------------------------------------------------
\* Bounds of the model
\* ------------------------------------------------------------------------
\* child indices 0..MaxIndex are used for path steps and derived addresses
MaxIndex == 1
\* longest derivation path in a descriptor that is loaded or built
MaxPathLen == 1
\* debounce durations 0..MaxDuration seconds are tried
MaxDuration == 2
\* events sent on the debounced sender in one run
MaxEvents == 3
\* block and header heights 0..MaxHeight are reported by the node
MaxHeight == 2
\* get_blockchain_info calls in one run of wait_blockchain_sync
MaxPolls == 3

\* ------------------------------------------------------------------------
\* Version table (util/xpub.rs)
\* ------------------------------------------------------------------------
PayloadLen == 78

NetworkSet == {"Bitcoin", "Testnet", "Regtest"}
ScriptTypes == {"P2pkh", "P2wpkh", "P2shP2wpkh"}

parse_xyz_version(version) ==
    CASE version = <<4, 136, 178, 30>>  -> Ok([network |-> "Bitcoin", script_type |-> "P2pkh"])
      [] version = <<4, 178, 71, 70>>   -> Ok([network |-> "Bitcoin", script_type |-> "P2wpkh"])
      [] version = <<4, 157, 124, 178>> -> Ok([network |-> "Bitcoin", script_type |-> "P2shP2wpkh"])
      [] version = <<4, 53, 135, 207>>  -> Ok([network |-> "Testnet", script_type |-> "P2pkh"])
      [] version = <<4, 95, 28, 246>>   -> Ok([network |-> "Testnet", script_type |-> "P2wpkh"])
      [] version = <<4, 74, 82, 98>>    -> Ok([network |-> "Testnet", script_type |-> "P2shP2wpkh"])
      [] OTHER -> Err([kind |-> "InvalidVersion", bytes |-> version])

\* a faulty variant: the mainnet prefix whatever the network
get_xpub_p2pkh_version_Mainnet(network) == <<4, 136, 178, 30>>

get_xpub_p2pkh_version(network) ==
    IF network = "Bitcoin" THEN <<4, 136, 178, 30>> ELSE <<4, 53, 135, 207>>

\* ------------------------------------------------------------------------
\* base58check (bitcoin::util::base58), as used by from_str
\* ------------------------------------------------------------------------
from_check(s) ==
    IF s.checksum THEN Ok(s.payload) ELSE Err([kind |-> "BadChecksum"])

check_encode_slice(data) == [payload |-> data, checksum |-> TRUE]

\* ------------------------------------------------------------------------
\* Key material: secp256k1, HASH160 and BIP-32 CKDpub are 256-bit and hash
\* computations; their values are tabulated here for the keys a run can
\* meet. A key outside a table has no value in the model.
\* ------------------------------------------------------------------------
\* xpub661MyMw...JM8egC, the master key of the tests: chain code and public key
xpub661_chain_code ==
    <<80, 91, 82, 67, 58, 13, 194, 49, 239, 171, 215, 215, 66, 228, 79, 98, 116, 103, 156, 236,
      82, 143, 148, 109, 120, 60, 124, 49, 125, 146, 43, 81>>

xpub661_public_key ==
    <<2, 41, 46, 182, 134, 218, 104, 71, 12, 220, 29, 171, 203, 150, 40, 124, 128, 215, 97, 32,
      233, 40, 48, 97, 159, 89, 228, 28, 16, 106, 141, 67, 105>>

\* xpub68VHDuZ...UwiPZk, its child 0 (tests::test_desc_to_xpub_conversion)
xpub68VH_chain_code ==
    <<77, 92, 138, 126, 230, 74, 12, 133, 20, 199, 214, 187, 45, 128, 216, 131, 87, 78, 227, 9,
      237, 185, 105, 198, 178, 58, 29, 129, 69, 176, 1, 136>>

xpub68VH_public_key ==
    <<3, 227, 244, 140, 109, 253, 77, 66, 184, 75, 192, 63, 17, 98, 88, 230, 119, 229, 123,
      199, 235, 73, 170, 182, 151, 204, 131, 38, 16, 138, 197, 119, 92>>

\* xpub6D4BDPc...6fcLW5, m/0'/1/2' of BIP-32 test vector 1: a hardened child
xpub6D4B_chain_code ==
    <<4, 70, 107, 156, 200, 225, 97, 233, 102, 64, 156, 165, 41, 134, 197, 132, 240, 126, 157,
      200, 31, 115, 93, 182, 131, 195, 255, 110, 199, 177, 80, 63>>

xpub6D4B_public_key ==
    <<3, 87, 191, 225, 227, 65, 208, 28, 105, 254, 86, 84, 48, 153, 86, 203, 234, 81, 104, 34,
      251, 168, 166, 1, 116, 58, 1, 42, 120, 150, 238, 141, 194>>

\* the raw key of pkh(021ebb0d...f974f0) in the tests
raw_public_key ==
    <<2, 30, 187, 13, 52, 156, 205, 114, 211, 100, 140, 148, 76, 132, 227, 131, 69, 207, 141,
      32, 13, 207, 33, 108, 182, 36, 160, 184, 105, 187, 249, 116, 240>>

\* secp256k1: whether y^2 = x^3 + 7 has a solution in the field for the
\* 32-byte x coordinate, for the x coordinates of the keys a run can parse
secp256k1_on_curve ==
       <<41, 46, 182, 134, 218, 104, 71, 12, 220, 29, 171, 203, 150, 40, 124, 128, 215, 97, 32, 233, 40, 48, 97, 159, 89, 228, 28, 16, 106, 141, 67, 105>> :>
         TRUE
    @@ <<227, 244, 140, 109, 253, 77, 66, 184, 75, 192, 63, 17, 98, 88, 230, 119, 229, 123, 199, 235, 73, 170, 182, 151, 204, 131, 38, 16, 138, 197, 119, 92>> :>
         TRUE
    @@ <<87, 191, 225, 227, 65, 208, 28, 105, 254, 86, 84, 48, 153, 86, 203, 234, 81, 104, 34, 251, 168, 166, 1, 116, 58, 1, 42, 120, 150, 238, 141, 194>> :>
         TRUE
    @@ <<30, 187, 13, 52, 156, 205, 114, 211, 100, 140, 148, 76, 132, 227, 131, 69, 207, 141, 32, 13, 207, 33, 108, 182, 36, 160, 184, 105, 187, 249, 116, 240>> :>
         TRUE
    @@ <<10, 10, 10, 10, 10, 10, 10, 10, 10, 10, 10, 10, 10, 10, 10, 10, 10, 10, 10, 10, 10, 10, 10, 10, 10, 10, 10, 10, 10, 10, 10, 10>> :>
         FALSE

\* HASH160 = RIPEMD160(SHA256(.)) of a compressed public key, for the keys
\* of the model: the keys above and their children by CKDpub
hash160 ==
       <<2, 0, 228, 240, 2, 12, 179, 197, 144, 251, 32, 128, 235, 220, 118, 181, 58, 72, 154, 248, 20, 44, 92, 220, 251, 78, 0, 21, 61, 194, 66, 240, 30>> :>
         <<103, 59, 212, 101, 244, 5, 17, 192, 104, 241, 210, 193, 34, 254, 147, 141, 51, 8, 149, 76>>
    @@ <<2, 1, 85, 166, 84, 24, 119, 197, 10, 177, 40, 204, 138, 61, 61, 73, 182, 25, 236, 43, 126, 198, 243, 155, 78, 79, 94, 50, 63, 183, 9, 224, 47>> :>
         <<35, 253, 229, 60, 222, 45, 92, 162, 120, 225, 158, 21, 72, 39, 73, 255, 43, 158, 7, 242>>
    @@ <<2, 4, 48, 227, 172, 19, 229, 75, 168, 164, 109, 120, 76, 254, 171, 11, 83, 103, 89, 72, 13, 244, 255, 220, 229, 248, 127, 180, 99, 21, 23, 185, 172>> :>
         <<62, 135, 138, 54, 45, 69, 191, 243, 179, 2, 5, 235, 109, 47, 89, 142, 127, 73, 168, 226>>
    @@ <<2, 5, 158, 8, 17, 43, 152, 209, 192, 217, 95, 254, 56, 17, 146, 129, 230, 76, 216, 132, 81, 192, 227, 198, 14, 51, 230, 70, 202, 5, 125, 5, 228>> :>
         <<207, 134, 141, 121, 32, 87, 138, 63, 92, 239, 212, 169, 119, 55, 252, 175, 168, 108, 87, 57>>
    @@ <<2, 7, 65, 101, 160, 158, 77, 149, 31, 116, 1, 238, 89, 19, 74, 230, 180, 122, 199, 41, 213, 92, 95, 51, 181, 5, 195, 240, 232, 71, 113, 123, 254>> :>
         <<191, 210, 25, 17, 204, 147, 19, 225, 19, 180, 136, 116, 55, 98, 149, 19, 250, 12, 212, 112>>
    @@ <<2, 15, 30, 31, 145, 67, 64, 73, 157, 103, 223, 10, 131, 154, 175, 71, 206, 252, 47, 74, 161, 210, 209, 178, 63, 29, 126, 152, 130, 17, 49, 243, 152>> :>
         <<47, 119, 233, 69, 159, 253, 54, 197, 26, 181, 212, 157, 137, 191, 66, 20, 195, 53, 151, 161>>
    @@ <<2, 23, 55, 136, 174, 38, 63, 144, 201, 46, 156, 212, 9, 125, 124, 217, 195, 123, 110, 20, 227, 136, 30, 121, 9, 77, 226, 154, 166, 193, 164, 244, 31>> :>
         <<132, 148, 60, 169, 139, 72, 173, 124, 12, 231, 178, 197, 153, 66, 141, 102, 5, 253, 215, 66>>
    @@ <<2, 30, 182, 203, 96, 91, 230, 152, 248, 92, 217, 152, 174, 27, 19, 141, 58, 211, 36, 112, 112, 156, 38, 175, 36, 87, 119, 241, 76, 172, 8, 221, 205>> :>
         <<120, 20, 1, 75, 136, 161, 29, 105, 113, 84, 161, 48, 75, 157, 184, 184, 14, 235, 233, 90>>
    @@ <<2, 30, 187, 13, 52, 156, 205, 114, 211, 100, 140, 148, 76, 132, 227, 131, 69, 207, 141, 32, 13, 207, 33, 108, 182, 36, 160, 184, 105, 187, 249, 116, 240>> :>
         <<85, 18, 205, 196, 199, 52, 45, 210, 199, 233, 69, 127, 70, 96, 100, 14, 57, 58, 97, 85>>
    @@ <<2, 35, 235, 185, 32, 211, 32, 21, 241, 113, 141, 114, 124, 28, 235, 172, 16, 131, 111, 12, 12, 27, 27, 82, 228, 125, 246, 196, 66, 34, 104, 53, 154>> :>
         <<162, 18, 173, 64, 133, 75, 21, 188, 153, 150, 164, 227, 99, 161, 32, 238, 5, 126, 103, 69>>
    @@ <<2, 38, 50, 30, 50, 215, 23, 144, 136, 118, 135, 219, 117, 179, 63, 9, 70, 214, 37, 217, 214, 26, 251, 215, 75, 41, 182, 202, 13, 98, 210, 9, 81>> :>
         <<237, 249, 119, 240, 83, 117, 41, 194, 170, 237, 143, 216, 201, 254, 147, 209, 224, 163, 126, 126>>
    @@ <<2, 38, 255, 245, 84, 232, 170, 54, 57, 6, 123, 207, 254, 214, 59, 135, 240, 184, 208, 123, 194, 210, 130, 89, 33, 187, 199, 8, 110, 241, 97, 14, 106>> :>
         <<167, 161, 195, 55, 61, 7, 135, 204, 211, 100, 250, 192, 64, 216, 80, 0, 222, 142, 17, 171>>
    @@ <<2, 41, 46, 182, 134, 218, 104, 71, 12, 220, 29, 171, 203, 150, 40, 124, 128, 215, 97, 32, 233, 40, 48, 97, 159, 89, 228, 28, 16, 106, 141, 67, 105>> :>
         <<81, 151, 3, 42, 182, 114, 251, 131, 238, 83, 195, 191, 44, 48, 68, 101, 249, 192, 28, 31>>
    @@ <<2, 50, 8, 221, 128, 98, 45, 109, 74, 255, 12, 4, 67, 52, 226, 233, 135, 9, 170, 225, 114, 133, 91, 64, 188, 171, 123, 161, 86, 56, 228, 168, 122>> :>
         <<173, 115, 170, 250, 201, 248, 9, 40, 74, 210, 125, 244, 174, 240, 164, 43, 5, 203, 219, 168>>
    @@ <<2, 51, 236, 194, 118, 44, 76, 196, 125, 112, 21, 245, 60, 91, 58, 111, 231, 161, 151, 215, 109, 46, 58, 138, 234, 90, 211, 233, 40, 230, 96, 137, 160>> :>
         <<29, 22, 61, 197, 14, 233, 173, 32, 216, 11, 170, 76, 83, 56, 218, 45, 32, 75, 191, 133>>
    @@ <<2, 62, 53, 86, 238, 174, 118, 74, 170, 56, 196, 248, 255, 246, 229, 75, 67, 51, 170, 209, 103, 63, 193, 250, 94, 192, 39, 154, 7, 66, 112, 0, 78>> :>
         <<128, 113, 218, 140, 91, 226, 224, 113, 114, 65, 92, 0, 54, 244, 151, 191, 20, 255, 24, 193>>
    @@ <<2, 62, 181, 154, 241, 189, 164, 244, 139, 104, 255, 62, 240, 137, 145, 124, 143, 30, 136, 76, 123, 27, 209, 52, 203, 230, 224, 175, 112, 250, 16, 115, 13>> :>
         <<73, 227, 39, 247, 235, 132, 100, 29, 12, 85, 67, 6, 238, 182, 159, 40, 4, 74, 240, 175>>
    @@ <<2, 66, 218, 40, 85, 72, 217, 147, 131, 137, 178, 235, 224, 169, 190, 170, 101, 4, 183, 19, 143, 30, 206, 130, 251, 211, 161, 233, 112, 205, 75, 107, 187>> :>
         <<252, 76, 121, 185, 162, 61, 169, 25, 115, 12, 128, 41, 86, 120, 46, 86, 221, 112, 9, 91>>
    @@ <<2, 67, 128, 43, 254, 226, 197, 129, 1, 213, 218, 129, 2, 143, 52, 128, 169, 35, 174, 90, 247, 113, 228, 5, 94, 222, 21, 68, 130, 233, 109, 161, 205>> :>
         <<84, 64, 26, 59, 82, 138, 79, 192, 254, 210, 172, 145, 246, 109, 29, 18, 132, 220, 77, 74>>
    @@ <<2, 67, 191, 230, 34, 54, 18, 241, 123, 161, 97, 158, 76, 26, 36, 159, 220, 163, 206, 92, 179, 218, 164, 238, 110, 105, 26, 44, 56, 163, 17, 218, 170>> :>
         <<92, 151, 216, 4, 165, 42, 155, 16, 77, 140, 75, 231, 72, 46, 210, 21, 13, 43, 157, 206>>
    @@ <<2, 74, 194, 178, 55, 105, 251, 67, 58, 50, 28, 182, 2, 133, 61, 211, 89, 124, 149, 208, 237, 230, 121, 118, 4, 83, 83, 55, 32, 84, 164, 14, 19>> :>
         <<9, 69, 7, 41, 11, 175, 244, 193, 188, 154, 223, 102, 166, 96, 24, 29, 114, 136, 17, 154>>
    @@ <<2, 82, 188, 218, 3, 13, 176, 221, 169, 88, 154, 58, 200, 213, 18, 91, 106, 71, 168, 64, 254, 201, 196, 6, 125, 74, 92, 183, 149, 38, 65, 173, 225>> :>
         <<170, 169, 131, 15, 1, 177, 235, 186, 160, 19, 200, 34, 70, 218, 219, 144, 58, 200, 200, 171>>
    @@ <<2, 94, 49, 224, 196, 144, 160, 99, 117, 60, 181, 64, 176, 80, 198, 72, 29, 17, 190, 232, 102, 40, 2, 47, 94, 253, 33, 186, 59, 21, 134, 194, 93>> :>
         <<185, 134, 110, 103, 25, 160, 125, 108, 10, 7, 209, 220, 241, 152, 221, 56, 90, 40, 38, 179>>
    @@ <<2, 97, 150, 17, 132, 111, 104, 81, 249, 48, 160, 59, 152, 87, 212, 42, 84, 227, 201, 212, 114, 26, 210, 137, 125, 30, 228, 64, 180, 229, 76, 121, 187>> :>
         <<106, 129, 52, 74, 170, 177, 98, 17, 25, 113, 62, 117, 98, 230, 242, 166, 29, 111, 102, 57>>
    @@ <<2, 107, 109, 37, 164, 187, 190, 140, 200, 214, 10, 97, 34, 240, 101, 85, 226, 225, 143, 39, 175, 242, 194, 174, 174, 188, 6, 202, 120, 20, 18, 207, 229>> :>
         <<108, 43, 195, 247, 165, 161, 217, 49, 244, 23, 155, 56, 6, 220, 17, 171, 161, 13, 124, 238>>
    @@ <<2, 111, 253, 16, 186, 153, 18, 16, 14, 229, 130, 231, 143, 199, 50, 107, 247, 228, 5, 33, 84, 176, 76, 205, 67, 26, 88, 181, 18, 84, 119, 168, 123>> :>
         <<237, 140, 47, 94, 95, 79, 115, 93, 212, 9, 201, 196, 127, 30, 70, 123, 211, 32, 184, 141>>
    @@ <<2, 117, 113, 106, 57, 225, 209, 234, 68, 55, 193, 154, 161, 163, 145, 138, 70, 38, 190, 241, 43, 78, 21, 112, 234, 18, 132, 221, 122, 235, 159, 183, 223>> :>
         <<240, 233, 245, 38, 127, 171, 41, 133, 237, 246, 176, 210, 91, 228, 180, 68, 205, 116, 245, 215>>
    @@ <<2, 120, 255, 203, 45, 175, 236, 47, 197, 25, 132, 224, 242, 220, 223, 75, 72, 158, 190, 117, 225, 163, 73, 54, 47, 35, 128, 1, 5, 102, 112, 225, 110>> :>
         <<149, 175, 25, 112, 41, 77, 239, 108, 255, 30, 60, 223, 41, 148, 7, 43, 28, 85, 64, 155>>
    @@ <<2, 121, 136, 202, 245, 191, 76, 221, 32, 103, 30, 78, 172, 202, 192, 9, 207, 111, 36, 50, 189, 97, 24, 187, 163, 224, 89, 14, 39, 130, 138, 219, 131>> :>
         <<84, 18, 34, 72, 218, 161, 158, 180, 207, 144, 84, 80, 231, 28, 47, 23, 88, 215, 180, 232>>
    @@ <<2, 134, 240, 27, 11, 64, 137, 3, 202, 74, 62, 97, 1, 219, 8, 68, 114, 96, 135, 87, 100, 2, 129, 203, 103, 75, 205, 80, 128, 197, 76, 34, 2>> :>
         <<123, 120, 10, 168, 30, 182, 15, 81, 187, 183, 227, 252, 208, 222, 85, 150, 101, 66, 251, 102>>
    @@ <<2, 138, 43, 14, 228, 125, 193, 19, 221, 143, 192, 23, 254, 12, 37, 103, 189, 53, 132, 236, 180, 241, 1, 45, 53, 130, 186, 198, 252, 184, 118, 100, 94>> :>
         <<197, 71, 66, 212, 135, 17, 204, 86, 120, 29, 171, 96, 195, 194, 142, 157, 26, 54, 42, 187>>
    @@ <<2, 140, 14, 11, 155, 149, 39, 226, 157, 0, 199, 192, 99, 66, 241, 6, 183, 103, 174, 153, 230, 63, 80, 254, 20, 81, 210, 65, 8, 109, 27, 184, 68>> :>
         <<13, 249, 202, 23, 190, 240, 187, 117, 90, 17, 247, 13, 35, 23, 110, 13, 138, 13, 205, 204>>
    @@ <<2, 147, 109, 21, 38, 119, 35, 212, 229, 104, 156, 31, 59, 69, 168, 38, 85, 100, 254, 252, 197, 123, 72, 205, 250, 59, 40, 67, 220, 146, 122, 254, 59>> :>
         <<153, 167, 119, 15, 198, 154, 40, 223, 102, 215, 149, 48, 191, 254, 195, 37, 111, 212, 228, 14>>
    @@ <<2, 151, 24, 139, 28, 208, 124, 247, 236, 28, 114, 191, 220, 181, 238, 61, 202, 102, 161, 13, 189, 223, 248, 182, 63, 77, 112, 37, 89, 52, 157, 134, 28>> :>
         <<42, 216, 123, 105, 149, 221, 220, 203, 150, 207, 74, 192, 43, 159, 249, 23, 42, 83, 25, 131>>
    @@ <<2, 151, 183, 203, 180, 61, 145, 12, 169, 147, 23, 97, 94, 237, 137, 125, 35, 161, 234, 130, 67, 228, 102, 28, 106, 131, 90, 69, 148, 68, 36, 144, 196>> :>
         <<210, 237, 218, 48, 149, 96, 6, 251, 20, 75, 212, 182, 138, 102, 116, 87, 78, 42, 223, 53>>
    @@ <<2, 154, 124, 163, 125, 73, 253, 27, 87, 141, 249, 244, 217, 176, 178, 13, 21, 191, 202, 128, 147, 213, 242, 75, 10, 33, 255, 140, 175, 85, 104, 2, 254>> :>
         <<46, 244, 191, 208, 119, 12, 115, 62, 108, 215, 86, 92, 30, 122, 65, 150, 204, 211, 74, 140>>
    @@ <<2, 159, 58, 72, 211, 41, 131, 59, 148, 198, 237, 255, 217, 187, 135, 99, 53, 39, 74, 130, 117, 243, 67, 88, 56, 80, 108, 253, 70, 130, 36, 132, 12>> :>
         <<213, 172, 228, 49, 229, 220, 246, 67, 180, 154, 137, 96, 23, 185, 201, 221, 196, 78, 42, 104>>
    @@ <<2, 165, 118, 219, 49, 195, 220, 155, 251, 23, 110, 75, 131, 139, 38, 236, 0, 150, 202, 186, 131, 144, 59, 67, 66, 61, 22, 161, 74, 253, 238, 23, 131>> :>
         <<32, 243, 241, 91, 202, 255, 46, 211, 237, 237, 66, 206, 104, 242, 77, 90, 26, 68, 255, 224>>
    @@ <<2, 172, 84, 22, 118, 163, 31, 100, 73, 118, 132, 154, 28, 212, 7, 248, 97, 61, 225, 93, 136, 140, 79, 7, 3, 119, 220, 219, 78, 126, 100, 171, 94>> :>
         <<20, 36, 199, 237, 101, 23, 15, 139, 9, 244, 69, 177, 124, 102, 177, 177, 234, 3, 134, 165>>
    @@ <<2, 174, 184, 67, 58, 191, 5, 108, 137, 156, 199, 53, 240, 124, 77, 209, 175, 194, 117, 74, 228, 36, 64, 80, 39, 67, 12, 225, 62, 218, 21, 216, 240>> :>
         <<78, 203, 242, 195, 83, 173, 232, 203, 109, 37, 77, 195, 58, 0, 111, 217, 124, 62, 179, 224>>
    @@ <<2, 175, 216, 18, 56, 245, 253, 65, 246, 23, 86, 95, 117, 219, 75, 186, 116, 183, 80, 92, 249, 235, 83, 31, 190, 251, 250, 212, 76, 168, 15, 148, 149>> :>
         <<110, 248, 111, 236, 105, 192, 50, 165, 209, 11, 19, 46, 7, 207, 47, 92, 95, 98, 209, 125>>
    @@ <<2, 175, 225, 29, 63, 52, 214, 227, 11, 96, 73, 67, 117, 186, 174, 162, 58, 13, 231, 144, 160, 237, 131, 184, 175, 84, 37, 180, 6, 23, 237, 218, 123>> :>
         <<74, 192, 247, 24, 235, 97, 227, 74, 226, 175, 41, 79, 180, 5, 151, 86, 220, 113, 16, 93>>
    @@ <<2, 191, 137, 77, 150, 115, 198, 219, 174, 13, 168, 155, 150, 113, 60, 20, 204, 38, 168, 69, 246, 126, 187, 13, 111, 206, 16, 252, 25, 81, 245, 122, 234>> :>
         <<199, 208, 139, 171, 253, 79, 152, 136, 232, 37, 254, 85, 35, 21, 103, 214, 69, 61, 147, 43>>
    @@ <<2, 193, 234, 156, 5, 238, 76, 17, 12, 248, 170, 243, 100, 134, 86, 88, 68, 198, 180, 30, 39, 175, 225, 242, 76, 97, 105, 54, 87, 165, 40, 33, 134>> :>
         <<145, 67, 70, 156, 126, 123, 42, 180, 96, 222, 183, 85, 190, 252, 90, 176, 88, 217, 58, 235>>
    @@ <<2, 196, 26, 12, 50, 100, 60, 228, 83, 252, 189, 207, 219, 226, 80, 136, 134, 83, 44, 20, 227, 102, 60, 116, 187, 141, 68, 203, 89, 119, 96, 67, 25>> :>
         <<184, 181, 37, 40, 194, 156, 230, 25, 99, 134, 190, 134, 248, 90, 159, 104, 255, 113, 153, 9>>
    @@ <<2, 199, 113, 35, 85, 140, 125, 207, 223, 248, 29, 28, 109, 163, 90, 32, 50, 8, 0, 228, 39, 167, 14, 148, 17, 158, 224, 124, 138, 4, 124, 117, 155>> :>
         <<20, 18, 13, 23, 187, 238, 211, 20, 252, 124, 230, 106, 168, 184, 121, 43, 112, 198, 161, 73>>
    @@ <<2, 208, 226, 126, 135, 123, 222, 226, 171, 215, 74, 95, 72, 69, 38, 199, 163, 188, 106, 110, 34, 188, 43, 187, 253, 108, 1, 75, 151, 88, 251, 147, 241>> :>
         <<155, 15, 3, 175, 82, 192, 225, 95, 65, 55, 137, 132, 38, 219, 20, 97, 222, 34, 199, 180>>
    @@ <<2, 216, 116, 14, 237, 137, 127, 0, 219, 129, 249, 151, 168, 37, 155, 119, 147, 243, 251, 121, 169, 252, 72, 63, 74, 114, 30, 23, 42, 52, 146, 156, 161>> :>
         <<188, 127, 44, 243, 57, 216, 15, 67, 221, 108, 155, 116, 153, 227, 231, 235, 36, 9, 28, 216>>
    @@ <<2, 223, 18, 183, 3, 91, 218, 200, 227, 186, 184, 98, 163, 168, 61, 6, 234, 107, 23, 182, 117, 61, 82, 237, 236, 186, 155, 228, 111, 93, 9, 224, 118>> :>
         <<249, 14, 49, 120, 202, 37, 242, 200, 8, 220, 118, 98, 64, 50, 211, 82, 253, 189, 250, 242>>
    @@ <<2, 224, 46, 100, 152, 122, 137, 194, 154, 26, 192, 242, 7, 20, 54, 50, 113, 130, 141, 75, 24, 115, 142, 237, 217, 233, 53, 34, 141, 44, 83, 63, 215>> :>
         <<78, 232, 228, 132, 25, 73, 226, 79, 185, 56, 175, 176, 249, 92, 180, 58, 68, 170, 237, 132>>
    @@ <<2, 232, 68, 80, 130, 167, 47, 41, 183, 92, 164, 135, 72, 169, 20, 223, 96, 98, 42, 96, 156, 172, 252, 232, 237, 14, 53, 128, 69, 96, 116, 29, 41>> :>
         <<216, 128, 215, 216, 147, 132, 133, 9, 166, 45, 143, 183, 78, 50, 20, 141, 172, 104, 65, 47>>
    @@ <<2, 239, 176, 68, 233, 236, 65, 31, 115, 3, 42, 225, 176, 227, 218, 117, 214, 42, 187, 88, 201, 198, 168, 3, 254, 86, 251, 185, 33, 12, 55, 141, 141>> :>
         <<90, 137, 30, 153, 182, 208, 211, 51, 210, 120, 129, 57, 234, 127, 108, 243, 170, 150, 19, 176>>
    @@ <<2, 240, 81, 221, 154, 158, 84, 214, 199, 248, 221, 157, 190, 196, 163, 43, 224, 2, 189, 197, 218, 82, 217, 149, 145, 11, 148, 16, 160, 197, 227, 54, 134>> :>
         <<169, 186, 233, 138, 62, 156, 21, 178, 164, 174, 207, 111, 78, 42, 100, 73, 216, 196, 190, 162>>
    @@ <<2, 246, 101, 170, 97, 146, 150, 164, 196, 223, 174, 216, 146, 162, 154, 103, 104, 166, 207, 11, 8, 30, 125, 221, 203, 21, 131, 8, 205, 99, 173, 163, 171>> :>
         <<176, 68, 144, 116, 198, 63, 78, 131, 38, 34, 230, 35, 85, 238, 131, 140, 161, 176, 42, 240>>
    @@ <<2, 252, 225, 50, 103, 251, 91, 203, 95, 22, 112, 127, 99, 221, 149, 89, 155, 155, 206, 111, 124, 14, 135, 29, 117, 133, 52, 245, 164, 208, 124, 238, 102>> :>
         <<80, 18, 203, 47, 53, 144, 226, 244, 106, 253, 167, 91, 27, 157, 177, 83, 240, 46, 91, 109>>
    @@ <<3, 1, 197, 173, 71, 102, 30, 145, 72, 103, 152, 112, 123, 230, 91, 36, 190, 148, 226, 41, 229, 119, 229, 82, 19, 47, 225, 200, 52, 147, 140, 141, 164>> :>
         <<79, 4, 249, 66, 53, 1, 64, 142, 133, 52, 170, 26, 254, 13, 45, 142, 229, 184, 61, 25>>
    @@ <<3, 3, 30, 199, 147, 78, 255, 32, 185, 143, 122, 137, 117, 193, 222, 175, 113, 51, 10, 2, 35, 42, 235, 18, 53, 4, 219, 9, 136, 81, 120, 1, 68>> :>
         <<127, 117, 161, 32, 150, 165, 243, 93, 96, 190, 79, 224, 177, 47, 132, 70, 88, 125, 15, 184>>
    @@ <<3, 4, 153, 70, 199, 151, 103, 0, 19, 106, 233, 181, 198, 224, 149, 159, 181, 71, 79, 76, 94, 245, 234, 31, 157, 128, 55, 220, 195, 141, 160, 13, 188>> :>
         <<100, 44, 40, 114, 133, 149, 77, 101, 203, 39, 101, 28, 130, 62, 111, 151, 130, 0, 24, 171>>
    @@ <<3, 14, 27, 28, 80, 148, 184, 236, 229, 126, 183, 171, 206, 92, 238, 232, 46, 53, 90, 235, 187, 48, 126, 127, 109, 95, 30, 212, 232, 59, 181, 117, 172>> :>
         <<192, 247, 212, 2, 138, 151, 16, 152, 25, 228, 153, 225, 154, 222, 95, 199, 96, 196, 13, 80>>
    @@ <<3, 14, 233, 154, 19, 17, 75, 59, 90, 187, 112, 100, 72, 239, 12, 16, 161, 15, 121, 198, 49, 252, 230, 155, 49, 165, 32, 199, 9, 19, 157, 16, 165>> :>
         <<4, 156, 144, 117, 234, 163, 106, 253, 194, 150, 10, 226, 22, 223, 44, 137, 164, 1, 139, 79>>
    @@ <<3, 20, 2, 141, 196, 87, 72, 154, 83, 165, 23, 180, 113, 169, 39, 171, 157, 118, 236, 26, 203, 198, 39, 210, 97, 152, 43, 87, 147, 151, 168, 75, 65>> :>
         <<128, 43, 199, 207, 249, 239, 2, 130, 34, 16, 56, 221, 155, 45, 18, 62, 206, 153, 21, 17>>
    @@ <<3, 26, 33, 13, 239, 106, 120, 152, 227, 106, 96, 106, 147, 46, 86, 224, 44, 221, 38, 21, 56, 3, 79, 48, 146, 56, 81, 26, 81, 8, 222, 81, 112>> :>
         <<54, 97, 110, 76, 213, 10, 151, 225, 107, 195, 151, 90, 214, 76, 28, 254, 235, 79, 168, 134>>
    @@ <<3, 36, 199, 56, 0, 27, 26, 85, 202, 67, 248, 186, 206, 42, 74, 94, 188, 221, 26, 189, 169, 149, 167, 178, 96, 230, 208, 222, 30, 242, 91, 55, 87>> :>
         <<227, 82, 67, 15, 7, 125, 213, 61, 255, 141, 119, 128, 179, 67, 46, 58, 89, 160, 144, 177>>
    @@ <<3, 38, 70, 232, 33, 39, 6, 7, 155, 213, 81, 69, 129, 136, 107, 2, 252, 247, 102, 83, 122, 233, 213, 215, 144, 252, 94, 100, 44, 96, 211, 132, 62>> :>
         <<36, 195, 193, 196, 132, 54, 208, 207, 211, 206, 156, 89, 69, 235, 65, 159, 235, 183, 101, 193>>
    @@ <<3, 40, 105, 162, 51, 201, 173, 255, 154, 153, 78, 73, 102, 229, 184, 33, 253, 91, 172, 6, 109, 166, 195, 17, 36, 136, 220, 82, 56, 59, 74, 152, 236>> :>
         <<168, 64, 157, 27, 109, 251, 30, 210, 163, 232, 170, 94, 14, 242, 255, 38, 177, 91, 117, 183>>
    @@ <<3, 50, 41, 7, 132, 3, 198, 149, 243, 50, 57, 162, 73, 165, 9, 189, 140, 62, 92, 229, 145, 160, 36, 73, 30, 23, 11, 125, 127, 205, 105, 30, 130>> :>
         <<150, 104, 189, 133, 55, 225, 235, 22, 155, 176, 0, 161, 77, 154, 243, 55, 96, 144, 169, 45>>
    @@ <<3, 60, 184, 180, 131, 12, 100, 103, 1, 60, 211, 202, 143, 107, 239, 242, 146, 188, 247, 1, 59, 232, 179, 249, 254, 103, 0, 132, 13, 239, 233, 253, 52>> :>
         <<164, 194, 6, 94, 153, 10, 43, 90, 237, 130, 60, 56, 222, 12, 169, 86, 111, 135, 233, 130>>
    @@ <<3, 84, 36, 21, 99, 79, 216, 157, 18, 19, 13, 92, 13, 109, 118, 190, 121, 40, 55, 75, 42, 149, 123, 54, 182, 43, 162, 253, 95, 247, 3, 133, 14>> :>
         <<172, 246, 57, 221, 71, 195, 251, 191, 241, 148, 176, 102, 219, 34, 74, 28, 215, 233, 202, 121>>
    @@ <<3, 84, 67, 17, 206, 14, 216, 195, 44, 253, 190, 137, 153, 14, 22, 206, 215, 80, 121, 43, 28, 5, 174, 67, 102, 153, 109, 58, 241, 198, 38, 111, 65>> :>
         <<253, 23, 220, 112, 57, 58, 200, 90, 59, 217, 179, 138, 234, 237, 119, 105, 31, 130, 212, 48>>
    @@ <<3, 87, 191, 225, 227, 65, 208, 28, 105, 254, 86, 84, 48, 153, 86, 203, 234, 81, 104, 34, 251, 168, 166, 1, 116, 58, 1, 42, 120, 150, 238, 141, 194>> :>
         <<238, 122, 185, 12, 222, 86, 168, 192, 226, 187, 8, 106, 196, 151, 72, 184, 219, 157, 206, 114>>
    @@ <<3, 93, 48, 182, 198, 109, 193, 224, 54, 196, 83, 105, 218, 130, 135, 81, 140, 247, 224, 214, 237, 30, 43, 144, 81, 113, 198, 5, 112, 143, 20, 202, 3>> :>
         <<3, 186, 30, 27, 141, 92, 199, 200, 155, 64, 130, 188, 235, 220, 118, 206, 144, 228, 66, 112>>
    @@ <<3, 95, 206, 111, 110, 55, 66, 246, 224, 132, 218, 249, 43, 250, 244, 90, 59, 139, 65, 112, 155, 110, 249, 0, 72, 19, 205, 156, 253, 102, 199, 25, 255>> :>
         <<150, 225, 46, 227, 175, 212, 7, 164, 240, 135, 193, 24, 137, 207, 105, 33, 134, 137, 244, 36>>
    @@ <<3, 96, 107, 146, 122, 9, 13, 110, 30, 46, 88, 115, 42, 38, 35, 229, 85, 191, 8, 37, 253, 131, 215, 53, 113, 13, 9, 7, 6, 71, 1, 90, 12>> :>
         <<59, 65, 136, 216, 205, 46, 193, 218, 55, 100, 189, 5, 246, 75, 170, 214, 64, 68, 42, 50>>
    @@ <<3, 97, 44, 70, 234, 9, 48, 112, 184, 94, 55, 48, 235, 175, 56, 168, 2, 149, 147, 169, 53, 38, 48, 250, 105, 65, 142, 28, 67, 113, 253, 12, 142>> :>
         <<7, 162, 103, 177, 180, 229, 110, 69, 145, 224, 230, 133, 182, 0, 238, 254, 42, 186, 155, 109>>
    @@ <<3, 98, 197, 35, 26, 11, 249, 236, 40, 28, 239, 72, 91, 121, 197, 1, 4, 39, 135, 66, 185, 170, 192, 178, 141, 6, 147, 179, 104, 40, 3, 192, 200>> :>
         <<18, 166, 202, 32, 80, 98, 45, 210, 92, 92, 114, 75, 173, 78, 4, 176, 7, 174, 53, 113>>
    @@ <<3, 104, 11, 184, 25, 175, 23, 184, 183, 141, 106, 130, 53, 48, 49, 240, 132, 120, 165, 119, 57, 199, 206, 17, 75, 134, 119, 122, 177, 29, 252, 186, 218>> :>
         <<93, 104, 120, 153, 127, 225, 89, 134, 21, 211, 242, 131, 115, 181, 242, 123, 38, 192, 32, 73>>
    @@ <<3, 105, 207, 143, 182, 13, 234, 126, 185, 32, 204, 180, 179, 226, 73, 72, 85, 63, 95, 224, 104, 9, 112, 154, 237, 117, 167, 217, 181, 88, 163, 47, 34>> :>
         <<51, 86, 241, 238, 38, 13, 199, 243, 16, 175, 162, 90, 53, 197, 153, 240, 12, 154, 162, 81>>
    @@ <<3, 107, 110, 153, 230, 142, 234, 147, 20, 129, 57, 252, 231, 80, 67, 170, 25, 90, 10, 211, 28, 24, 66, 210, 208, 69, 253, 209, 87, 193, 70, 216, 255>> :>
         <<234, 87, 56, 106, 220, 103, 84, 247, 146, 86, 127, 153, 222, 58, 123, 67, 231, 172, 161, 214>>
    @@ <<3, 109, 219, 141, 147, 180, 247, 244, 64, 72, 200, 85, 122, 85, 29, 19, 115, 64, 119, 19, 215, 35, 110, 60, 249, 183, 156, 237, 218, 16, 131, 106, 50>> :>
         <<77, 202, 60, 240, 7, 12, 125, 240, 89, 76, 244, 151, 131, 114, 112, 237, 62, 54, 226, 79>>
    @@ <<3, 111, 60, 227, 229, 239, 44, 223, 189, 219, 14, 144, 36, 98, 233, 181, 176, 46, 10, 140, 250, 200, 217, 191, 139, 233, 7, 143, 38, 98, 230, 120, 221>> :>
         <<193, 79, 169, 213, 124, 87, 237, 56, 170, 177, 61, 162, 236, 185, 201, 68, 134, 79, 142, 184>>
    @@ <<3, 115, 45, 201, 229, 7, 254, 26, 68, 175, 203, 242, 240, 113, 192, 77, 59, 102, 204, 176, 32, 242, 212, 255, 156, 138, 163, 219, 245, 44, 198, 198, 20>> :>
         <<105, 147, 26, 241, 118, 27, 51, 105, 120, 165, 215, 208, 255, 234, 112, 163, 66, 100, 135, 252>>
    @@ <<3, 131, 123, 139, 98, 100, 43, 68, 247, 33, 220, 1, 56, 66, 45, 38, 184, 228, 63, 20, 57, 133, 174, 194, 158, 156, 186, 226, 76, 106, 53, 28, 215>> :>
         <<35, 165, 181, 182, 200, 83, 166, 151, 128, 162, 6, 240, 197, 203, 224, 29, 227, 29, 253, 150>>
    @@ <<3, 132, 227, 221, 182, 144, 4, 245, 96, 145, 155, 7, 158, 241, 209, 54, 141, 226, 249, 19, 194, 124, 210, 72, 40, 234, 239, 161, 111, 176, 88, 45, 210>> :>
         <<168, 247, 59, 215, 147, 74, 86, 150, 161, 176, 20, 99, 156, 6, 154, 103, 231, 185, 132, 175>>
    @@ <<3, 133, 193, 222, 126, 21, 79, 96, 245, 167, 13, 36, 219, 107, 141, 72, 178, 34, 200, 9, 85, 1, 113, 255, 90, 14, 122, 54, 161, 50, 218, 2, 222>> :>
         <<158, 224, 118, 163, 214, 46, 16, 52, 123, 222, 164, 9, 202, 176, 72, 127, 123, 167, 84, 248>>
    @@ <<3, 144, 55, 83, 85, 167, 145, 187, 39, 241, 247, 144, 182, 127, 194, 0, 128, 209, 208, 25, 144, 27, 192, 27, 112, 219, 187, 244, 86, 80, 245, 158, 215>> :>
         <<72, 153, 225, 122, 88, 87, 157, 224, 22, 235, 167, 92, 74, 242, 58, 231, 68, 11, 160, 62>>
    @@ <<3, 147, 94, 16, 31, 68, 77, 161, 44, 252, 255, 214, 220, 219, 166, 152, 50, 220, 57, 17, 27, 246, 20, 38, 53, 56, 154, 22, 169, 204, 72, 13, 99>> :>
         <<46, 231, 62, 107, 32, 132, 203, 16, 59, 14, 210, 14, 247, 56, 54, 184, 5, 82, 207, 150>>
    @@ <<3, 147, 195, 110, 26, 3, 246, 2, 254, 48, 59, 167, 111, 138, 131, 217, 187, 238, 226, 132, 239, 150, 204, 181, 28, 88, 6, 53, 35, 224, 170, 205, 4>> :>
         <<135, 23, 134, 144, 51, 227, 46, 254, 209, 110, 105, 142, 192, 59, 223, 249, 237, 30, 77, 7>>
    @@ <<3, 148, 36, 185, 245, 123, 140, 98, 84, 231, 101, 145, 73, 252, 175, 209, 75, 142, 67, 157, 69, 68, 148, 143, 47, 191, 253, 197, 31, 9, 0, 8, 45>> :>
         <<49, 49, 180, 251, 254, 242, 46, 238, 182, 200, 146, 128, 161, 154, 139, 95, 178, 151, 37, 65>>
    @@ <<3, 155, 73, 213, 27, 191, 148, 37, 117, 175, 236, 51, 251, 34, 220, 203, 76, 3, 82, 46, 21, 25, 113, 85, 168, 166, 5, 16, 230, 29, 128, 175, 26>> :>
         <<59, 244, 215, 233, 140, 120, 128, 159, 217, 229, 151, 157, 196, 75, 53, 36, 178, 122, 211, 235>>
    @@ <<3, 157, 55, 32, 6, 20, 40, 156, 110, 169, 225, 177, 28, 238, 45, 215, 82, 92, 49, 17, 172, 92, 140, 50, 68, 215, 197, 159, 216, 203, 103, 30, 234>> :>
         <<154, 201, 118, 161, 67, 177, 134, 28, 4, 211, 26, 176, 253, 243, 36, 172, 108, 57, 72, 10>>
    @@ <<3, 158, 156, 28, 187, 58, 52, 247, 160, 42, 161, 241, 119, 126, 157, 2, 208, 251, 216, 190, 13, 67, 19, 245, 92, 238, 137, 216, 9, 139, 207, 210, 162>> :>
         <<196, 8, 206, 48, 186, 79, 88, 41, 21, 187, 115, 202, 162, 198, 38, 132, 198, 7, 18, 47>>
    @@ <<3, 158, 194, 163, 189, 222, 74, 223, 171, 189, 170, 126, 97, 55, 124, 67, 72, 236, 7, 60, 249, 48, 123, 70, 34, 102, 20, 10, 136, 63, 75, 59, 235>> :>
         <<149, 227, 75, 153, 118, 38, 127, 59, 89, 0, 138, 130, 121, 228, 87, 58, 196, 1, 126, 114>>
    @@ <<3, 165, 93, 115, 254, 188, 140, 4, 186, 212, 221, 163, 168, 95, 131, 150, 121, 46, 21, 39, 239, 80, 207, 199, 186, 121, 195, 155, 108, 46, 59, 239, 242>> :>
         <<138, 231, 108, 123, 220, 249, 203, 43, 42, 224, 202, 80, 116, 35, 21, 163, 13, 225, 31, 39>>
    @@ <<3, 169, 125, 75, 158, 187, 7, 232, 114, 44, 106, 122, 192, 174, 10, 31, 10, 117, 64, 163, 31, 145, 78, 0, 100, 231, 122, 218, 52, 144, 170, 138, 138>> :>
         <<181, 237, 38, 146, 156, 187, 103, 8, 161, 98, 68, 15, 234, 185, 0, 94, 140, 47, 226, 161>>
    @@ <<3, 182, 92, 62, 86, 253, 182, 101, 109, 11, 241, 218, 191, 162, 226, 54, 121, 31, 239, 185, 183, 151, 51, 101, 210, 62, 206, 4, 56, 202, 199, 250, 178>> :>
         <<85, 204, 73, 111, 251, 165, 109, 229, 186, 50, 83, 64, 147, 139, 157, 23, 18, 62, 153, 11>>
    @@ <<3, 186, 173, 118, 91, 248, 62, 66, 184, 204, 88, 160, 161, 166, 108, 32, 156, 215, 192, 166, 206, 40, 240, 58, 49, 34, 73, 47, 56, 211, 144, 103, 182>> :>
         <<25, 131, 156, 135, 254, 97, 14, 72, 103, 66, 189, 110, 120, 181, 42, 130, 72, 137, 57, 110>>
    @@ <<3, 188, 242, 59, 232, 167, 76, 50, 103, 27, 93, 143, 54, 21, 13, 136, 125, 165, 236, 32, 114, 216, 74, 96, 234, 219, 40, 73, 62, 233, 159, 63, 180>> :>
         <<95, 139, 73, 118, 159, 35, 145, 234, 217, 75, 83, 113, 126, 205, 22, 89, 236, 138, 66, 169>>
    @@ <<3, 192, 18, 201, 23, 114, 175, 29, 86, 37, 97, 74, 194, 139, 80, 7, 135, 175, 206, 14, 129, 8, 149, 65, 132, 87, 117, 40, 25, 101, 14, 91, 103>> :>
         <<60, 134, 223, 169, 153, 64, 87, 162, 160, 254, 144, 120, 189, 120, 162, 45, 37, 45, 130, 190>>
    @@ <<3, 193, 0, 242, 114, 36, 96, 60, 251, 123, 238, 97, 114, 130, 240, 45, 198, 20, 115, 157, 250, 33, 181, 13, 124, 87, 104, 107, 26, 132, 139, 88, 215>> :>
         <<228, 11, 181, 44, 12, 73, 30, 240, 114, 73, 225, 11, 39, 38, 109, 207, 136, 67, 215, 82>>
    @@ <<3, 197, 111, 163, 7, 9, 2, 135, 104, 106, 144, 121, 149, 136, 99, 48, 36, 158, 34, 226, 61, 169, 21, 7, 78, 195, 249, 169, 158, 127, 152, 39, 75>> :>
         <<121, 49, 30, 120, 152, 38, 134, 146, 106, 143, 131, 43, 98, 108, 223, 41, 98, 159, 183, 242>>
    @@ <<3, 199, 11, 14, 137, 161, 107, 67, 239, 103, 179, 48, 102, 170, 121, 209, 111, 58, 144, 102, 187, 88, 223, 249, 35, 228, 187, 192, 234, 98, 18, 250, 210>> :>
         <<27, 88, 113, 8, 94, 180, 210, 86, 107, 238, 27, 94, 215, 64, 4, 214, 45, 202, 72, 5>>
    @@ <<3, 199, 31, 209, 35, 77, 46, 19, 113, 57, 91, 136, 137, 169, 199, 230, 236, 232, 35, 246, 244, 66, 21, 231, 127, 205, 10, 15, 149, 118, 186, 135, 186>> :>
         <<87, 129, 159, 38, 202, 85, 10, 78, 227, 68, 163, 56, 67, 208, 101, 27, 144, 80, 107, 249>>
    @@ <<3, 204, 90, 237, 216, 205, 196, 47, 242, 160, 139, 65, 29, 247, 33, 43, 193, 17, 156, 63, 142, 59, 217, 182, 201, 141, 1, 155, 2, 100, 240, 219, 133>> :>
         <<76, 247, 236, 218, 97, 225, 162, 156, 154, 16, 52, 222, 83, 155, 23, 38, 213, 56, 217, 99>>
    @@ <<3, 225, 141, 1, 200, 157, 192, 92, 103, 85, 82, 39, 177, 23, 97, 51, 103, 93, 31, 191, 23, 203, 137, 147, 109, 66, 212, 129, 8, 253, 194, 98, 253>> :>
         <<75, 101, 79, 111, 52, 131, 88, 93, 153, 248, 45, 203, 183, 226, 133, 158, 101, 173, 136, 67>>
    @@ <<3, 225, 189, 23, 192, 112, 219, 116, 38, 153, 184, 205, 76, 172, 116, 108, 130, 52, 243, 224, 131, 81, 71, 152, 239, 179, 210, 225, 87, 25, 166, 35, 146>> :>
         <<224, 196, 51, 41, 95, 228, 166, 232, 241, 234, 253, 13, 91, 133, 128, 75, 11, 6, 5, 218>>
    @@ <<3, 227, 244, 140, 109, 253, 77, 66, 184, 75, 192, 63, 17, 98, 88, 230, 119, 229, 123, 199, 235, 73, 170, 182, 151, 204, 131, 38, 16, 138, 197, 119, 92>> :>
         <<2, 226, 64, 155, 78, 167, 247, 137, 96, 43, 23, 1, 148, 115, 38, 181, 137, 185, 218, 35>>
    @@ <<3, 229, 253, 44, 166, 199, 120, 150, 170, 10, 231, 98, 165, 111, 104, 40, 145, 148, 140, 82, 164, 129, 168, 137, 195, 133, 43, 53, 165, 61, 126, 186, 126>> :>
         <<17, 74, 113, 123, 133, 117, 222, 20, 180, 130, 104, 74, 184, 9, 4, 159, 163, 243, 112, 229>>
    @@ <<3, 234, 141, 128, 165, 173, 26, 219, 142, 5, 169, 125, 143, 51, 222, 44, 231, 102, 157, 94, 209, 245, 29, 14, 39, 29, 133, 191, 4, 180, 174, 217, 162>> :>
         <<165, 148, 129, 114, 83, 221, 71, 105, 204, 124, 239, 219, 83, 42, 112, 185, 51, 158, 189, 102>>
    @@ <<3, 240, 210, 174, 45, 86, 102, 54, 198, 211, 53, 59, 222, 26, 73, 134, 70, 142, 169, 242, 149, 72, 240, 110, 72, 246, 44, 204, 172, 230, 59, 231, 31>> :>
         <<185, 159, 177, 25, 206, 12, 173, 90, 195, 218, 13, 28, 93, 125, 20, 242, 48, 59, 72, 60>>
    @@ <<3, 244, 74, 235, 204, 191, 194, 45, 49, 60, 148, 216, 207, 223, 252, 179, 55, 108, 120, 243, 75, 239, 113, 32, 97, 201, 79, 193, 5, 14, 48, 153, 176>> :>
         <<114, 52, 51, 62, 231, 19, 7, 7, 214, 140, 244, 225, 245, 147, 135, 78, 129, 84, 233, 79>>

\* HASH160 of the witness program script 0014<20-byte key hash>, the script
\* hash of a sh(wpkh()) address
hash160_p2wpkh ==
       <<103, 59, 212, 101, 244, 5, 17, 192, 104, 241, 210, 193, 34, 254, 147, 141, 51, 8, 149, 76>> :>
         <<12, 109, 22, 0, 102, 16, 88, 143, 90, 220, 71, 33, 133, 37, 75, 224, 44, 171, 100, 93>>
    @@ <<35, 253, 229, 60, 222, 45, 92, 162, 120, 225, 158, 21, 72, 39, 73, 255, 43, 158, 7, 242>> :>
         <<45, 210, 232, 148, 129, 154, 70, 179, 169, 78, 182, 182, 118, 73, 58, 114, 203, 133, 167, 157>>
    @@ <<62, 135, 138, 54, 45, 69, 191, 243, 179, 2, 5, 235, 109, 47, 89, 142, 127, 73, 168, 226>> :>
         <<201, 32, 193, 119, 9, 65, 91, 108, 67, 0, 49, 96, 73, 209, 53, 200, 45, 173, 45, 70>>
    @@ <<207, 134, 141, 121, 32, 87, 138, 63, 92, 239, 212, 169, 119, 55, 252, 175, 168, 108, 87, 57>> :>
         <<89, 139, 52, 181, 164, 208, 194, 209, 116, 60, 92, 209, 226, 171, 253, 53, 95, 172, 157, 141>>
    @@ <<191, 210, 25, 17, 204, 147, 19, 225, 19, 180, 136, 116, 55, 98, 149, 19, 250, 12, 212, 112>> :>
         <<78, 167, 192, 103, 13, 252, 211, 118, 189, 138, 24, 174, 171, 23, 225, 136, 72, 80, 241, 58>>
    @@ <<47, 119, 233, 69, 159, 253, 54, 197, 26, 181, 212, 157, 137, 191, 66, 20, 195, 53, 151, 161>> :>
         <<99, 186, 70, 195, 128, 46, 186, 218, 11, 239, 173, 178, 44, 251, 48, 37, 9, 89, 130, 117>>
    @@ <<132, 148, 60, 169, 139, 72, 173, 124, 12, 231, 178, 197, 153, 66, 141, 102, 5, 253, 215, 66>> :>
         <<237, 145, 83, 206, 18, 164, 144, 137, 1, 145, 41, 89, 197, 110, 73, 121, 101, 116, 225, 184>>
    @@ <<120, 20, 1, 75, 136, 161, 29, 105, 113, 84, 161, 48, 75, 157, 184, 184, 14, 235, 233, 90>> :>
         <<78, 235, 143, 170, 208, 146, 239, 8, 194, 255, 112, 174, 201, 5, 81, 243, 240, 221, 224, 135>>
    @@ <<85, 18, 205, 196, 199, 52, 45, 210, 199, 233, 69, 127, 70, 96, 100, 14, 57, 58, 97, 85>> :>
         <<124, 179, 146, 214, 227, 82, 222, 190, 91, 16, 212, 202, 206, 216, 241, 67, 177, 242, 210, 148>>
    @@ <<162, 18, 173, 64, 133, 75, 21, 188, 153, 150, 164, 227, 99, 161, 32, 238, 5, 126, 103, 69>> :>
         <<126, 89, 191, 112, 95, 36, 99, 20, 86, 219, 20, 170, 235, 243, 52, 192, 18, 92, 211, 15>>
    @@ <<237, 249, 119, 240, 83, 117, 41, 194, 170, 237, 143, 216, 201, 254, 147, 209, 224, 163, 126, 126>> :>
         <<187, 184, 94, 99, 115, 198, 169, 92, 90, 221, 241, 159, 146, 3, 62, 228, 141, 219, 64, 233>>
    @@ <<167, 161, 195, 55, 61, 7, 135, 204, 211, 100, 250, 192, 64, 216, 80, 0, 222, 142, 17, 171>> :>
         <<219, 130, 202, 96, 234, 200, 75, 254, 210, 245, 52, 246, 138, 183, 194, 231, 95, 4, 93, 226>>
    @@ <<81, 151, 3, 42, 182, 114, 251, 131, 238, 83, 195, 191, 44, 48, 68, 101, 249, 192, 28, 31>> :>
         <<20, 41, 0, 235, 216, 12, 155, 251, 8, 99, 160, 119, 105, 247, 72, 58, 61, 205, 48, 168>>
    @@ <<173, 115, 170, 250, 201, 248, 9, 40, 74, 210, 125, 244, 174, 240, 164, 43, 5, 203, 219, 168>> :>
         <<40, 146, 57, 84, 231, 201, 121, 82, 194, 95, 255, 155, 212, 192, 63, 235, 146, 247, 140, 106>>
    @@ <<29, 22, 61, 197, 14, 233, 173, 32, 216, 11, 170, 76, 83, 56, 218, 45, 32, 75, 191, 133>> :>
         <<189, 211, 191, 151, 26, 254, 168, 164, 23, 106, 199, 37, 138, 71, 170, 156, 196, 108, 68, 41>>
    @@ <<128, 113, 218, 140, 91, 226, 224, 113, 114, 65, 92, 0, 54, 244, 151, 191, 20, 255, 24, 193>> :>
         <<198, 170, 50, 42, 107, 17, 38, 30, 120, 94, 235, 185, 36, 196, 119, 52, 230, 168, 44, 180>>
    @@ <<73, 227, 39, 247, 235, 132, 100, 29, 12, 85, 67, 6, 238, 182, 159, 40, 4, 74, 240, 175>> :>
         <<114, 174, 94, 96, 224, 195, 149, 135, 162, 83, 164, 26, 96, 198, 18, 26, 66, 4, 99, 225>>
    @@ <<252, 76, 121, 185, 162, 61, 169, 25, 115, 12, 128, 41, 86, 120, 46, 86, 221, 112, 9, 91>> :>
         <<19, 128, 91, 228, 159, 33, 140, 255, 142, 103, 124, 30, 141, 236, 196, 208, 0, 255, 162, 30>>
    @@ <<84, 64, 26, 59, 82, 138, 79, 192, 254, 210, 172, 145, 246, 109, 29, 18, 132, 220, 77, 74>> :>
         <<171, 104, 143, 173, 77, 242, 67, 65, 72, 234, 230, 46, 201, 101, 32, 45, 38, 20, 110, 134>>
    @@ <<92, 151, 216, 4, 165, 42, 155, 16, 77, 140, 75, 231, 72, 46, 210, 21, 13, 43, 157, 206>> :>
         <<76, 197, 74, 186, 173, 219, 76, 142, 238, 186, 193, 161, 9, 151, 32, 54, 87, 99, 171, 120>>
    @@ <<9, 69, 7, 41, 11, 175, 244, 193, 188, 154, 223, 102, 166, 96, 24, 29, 114, 136, 17, 154>> :>
         <<123, 28, 104, 4, 212, 175, 138, 113, 229, 151, 255, 164, 200, 118, 225, 29, 217, 234, 182, 23>>
    @@ <<170, 169, 131, 15, 1, 177, 235, 186, 160, 19, 200, 34, 70, 218, 219, 144, 58, 200, 200, 171>> :>
         <<61, 85, 23, 155, 195, 255, 75, 122, 38, 208, 204, 204, 95, 172, 29, 200, 240, 83, 106, 143>>
    @@ <<185, 134, 110, 103, 25, 160, 125, 108, 10, 7, 209, 220, 241, 152, 221, 56, 90, 40, 38, 179>> :>
         <<249, 148, 104, 87, 199, 47, 194, 92, 113, 178, 124, 65, 102, 41, 125, 119, 62, 55, 116, 93>>
    @@ <<106, 129, 52, 74, 170, 177, 98, 17, 25, 113, 62, 117, 98, 230, 242, 166, 29, 111, 102, 57>> :>
         <<8, 250, 192, 226, 115, 181, 120, 135, 211, 186, 137, 93, 107, 153, 201, 98, 29, 115, 150, 46>>
    @@ <<108, 43, 195, 247, 165, 161, 217, 49, 244, 23, 155, 56, 6, 220, 17, 171, 161, 13, 124, 238>> :>
         <<114, 69, 203, 133, 138, 204, 9, 228, 230, 164, 7, 49, 5, 122, 228, 206, 193, 71, 185, 228>>
    @@ <<237, 140, 47, 94, 95, 79, 115, 93, 212, 9, 201, 196, 127, 30, 70, 123, 211, 32, 184, 141>> :>
         <<217, 189, 114, 103, 138, 12, 125, 244, 103, 123, 130, 9, 238, 220, 192, 215, 36, 85, 188, 214>>
    @@ <<240, 233, 245, 38, 127, 171, 41, 133, 237, 246, 176, 210, 91, 228, 180, 68, 205, 116, 245, 215>> :>
         <<244, 215, 151, 102, 72, 185, 176, 1, 69, 189, 248, 124, 129, 46, 55, 224, 14, 68, 103, 195>>
    @@ <<149, 175, 25, 112, 41, 77, 239, 108, 255, 30, 60, 223, 41, 148, 7, 43, 28, 85, 64, 155>> :>
         <<114, 202, 214, 169, 62, 203, 17, 24, 39, 211, 188, 103, 1, 47, 218, 114, 244, 53, 187, 139>>
    @@ <<84, 18, 34, 72, 218, 161, 158, 180, 207, 144, 84, 80, 231, 28, 47, 23, 88, 215, 180, 232>> :>
         <<201, 99, 101, 4, 25, 22, 166, 240, 120, 172, 142, 249, 15, 105, 134, 6, 197, 69, 43, 58>>
    @@ <<123, 120, 10, 168, 30, 182, 15, 81, 187, 183, 227, 252, 208, 222, 85, 150, 101, 66, 251, 102>> :>
         <<1, 201, 15, 110, 17, 79, 135, 79, 98, 249, 218, 101, 129, 113, 130, 46, 110, 226, 14, 156>>
    @@ <<197, 71, 66, 212, 135, 17, 204, 86, 120, 29, 171, 96, 195, 194, 142, 157, 26, 54, 42, 187>> :>
         <<122, 197, 23, 181, 162, 211, 81, 122, 95, 249, 87, 123, 56, 16, 185, 7, 104, 171, 160, 217>>
    @@ <<13, 249, 202, 23, 190, 240, 187, 117, 90, 17, 247, 13, 35, 23, 110, 13, 138, 13, 205, 204>> :>
         <<213, 111, 216, 96, 155, 167, 204, 242, 209, 160, 119, 219, 93, 225, 128, 69, 73, 73, 86, 31>>
    @@ <<153, 167, 119, 15, 198, 154, 40, 223, 102, 215, 149, 48, 191, 254, 195, 37, 111, 212, 228, 14>> :>
         <<55, 145, 80, 137, 109, 154, 129, 193, 172, 162, 164, 255, 7, 197, 156, 146, 202, 162, 57, 44>>
    @@ <<42, 216, 123, 105, 149, 221, 220, 203, 150, 207, 74, 192, 43, 159, 249, 23, 42, 83, 25, 131>> :>
         <<227, 240, 158, 76, 185, 152, 93, 248, 39, 59, 53, 160, 57, 62, 230, 221, 87, 89, 91, 16>>
    @@ <<210, 237, 218, 48, 149, 96, 6, 251, 20, 75, 212, 182, 138, 102, 116, 87, 78, 42, 223, 53>> :>
         <<226, 248, 226, 131, 111, 204, 224, 85, 133, 108, 69, 158, 10, 36, 235, 77, 69, 13, 211, 46>>
    @@ <<46, 244, 191, 208, 119, 12, 115, 62, 108, 215, 86, 92, 30, 122, 65, 150, 204, 211, 74, 140>> :>
         <<211, 14, 172, 216, 24, 15, 246, 13, 19, 150, 68, 175, 98, 190, 229, 89, 38, 200, 112, 8>>
    @@ <<213, 172, 228, 49, 229, 220, 246, 67, 180, 154, 137, 96, 23, 185, 201, 221, 196, 78, 42, 104>> :>
         <<126, 101, 8, 181, 250, 150, 68, 253, 103, 172, 14, 176, 29, 44, 13, 88, 102, 46, 175, 40>>
    @@ <<32, 243, 241, 91, 202, 255, 46, 211, 237, 237, 66, 206, 104, 242, 77, 90, 26, 68, 255, 224>> :>
         <<6, 225, 17, 203, 33, 65, 120, 218, 146, 57, 241, 119, 228, 113, 143, 114, 136, 143, 16, 172>>
    @@ <<20, 36, 199, 237, 101, 23, 15, 139, 9, 244, 69, 177, 124, 102, 177, 177, 234, 3, 134, 165>> :>
         <<243, 92, 124, 127, 232, 22, 207, 17, 237, 207, 224, 6, 201, 168, 230, 109, 238, 233, 35, 67>>
    @@ <<78, 203, 242, 195, 83, 173, 232, 203, 109, 37, 77, 195, 58, 0, 111, 217, 124, 62, 179, 224>> :>
         <<141, 224, 253, 95, 128, 191, 139, 22, 44, 34, 207, 230, 4, 88, 165, 224, 239, 72, 131, 43>>
    @@ <<110, 248, 111, 236, 105, 192, 50, 165, 209, 11, 19, 46, 7, 207, 47, 92, 95, 98, 209, 125>> :>
         <<99, 240, 183, 142, 103, 242, 222, 85, 231, 51, 106, 155, 94, 62, 132, 157, 133, 75, 30, 188>>
    @@ <<74, 192, 247, 24, 235, 97, 227, 74, 226, 175, 41, 79, 180, 5, 151, 86, 220, 113, 16, 93>> :>
         <<57, 202, 220, 133, 65, 167, 162, 100, 54, 153, 219, 58, 8, 82, 55, 60, 219, 251, 250, 213>>
    @@ <<199, 208, 139, 171, 253, 79, 152, 136, 232, 37, 254, 85, 35, 21, 103, 214, 69, 61, 147, 43>> :>
         <<162, 21, 167, 162, 10, 169, 134, 134, 53, 32, 121, 226, 180, 192, 89, 143, 22, 164, 37, 40>>
    @@ <<145, 67, 70, 156, 126, 123, 42, 180, 96, 222, 183, 85, 190, 252, 90, 176, 88, 217, 58, 235>> :>
         <<47, 6, 194, 8, 162, 190, 129, 191, 135, 150, 233, 165, 194, 51, 158, 144, 195, 227, 168, 135>>
    @@ <<184, 181, 37, 40, 194, 156, 230, 25, 99, 134, 190, 134, 248, 90, 159, 104, 255, 113, 153, 9>> :>
         <<46, 249, 86, 94, 123, 37, 19, 212, 157, 86, 224, 195, 97, 9, 3, 205, 106, 94, 165, 88>>
    @@ <<20, 18, 13, 23, 187, 238, 211, 20, 252, 124, 230, 106, 168, 184, 121, 43, 112, 198, 161, 73>> :>
         <<8, 51, 215, 170, 134, 132, 107, 193, 24, 120, 33, 113, 58, 244, 179, 12, 10, 64, 125, 163>>
    @@ <<155, 15, 3, 175, 82, 192, 225, 95, 65, 55, 137, 132, 38, 219, 20, 97, 222, 34, 199, 180>> :>
         <<108, 195, 29, 44, 236, 60, 115, 91, 40, 136, 112, 238, 21, 152, 188, 105, 56, 37, 185, 142>>
    @@ <<188, 127, 44, 243, 57, 216, 15, 67, 221, 108, 155, 116, 153, 227, 231, 235, 36, 9, 28, 216>> :>
         <<210, 41, 52, 198, 229, 161, 133, 67, 251, 53, 95, 22, 76, 32, 178, 36, 172, 156, 47, 191>>
    @@ <<249, 14, 49, 120, 202, 37, 242, 200, 8, 220, 118, 98, 64, 50, 211, 82, 253, 189, 250, 242>> :>
         <<8, 243, 234, 140, 104, 212, 167, 88, 91, 249, 232, 189, 162, 38, 114, 63, 112, 228, 69, 240>>
    @@ <<78, 232, 228, 132, 25, 73, 226, 79, 185, 56, 175, 176, 249, 92, 180, 58, 68, 170, 237, 132>> :>
         <<201, 194, 125, 150, 53, 250, 141, 54, 235, 34, 243, 209, 22, 152, 79, 95, 247, 224, 139, 185>>
    @@ <<216, 128, 215, 216, 147, 132, 133, 9, 166, 45, 143, 183, 78, 50, 20, 141, 172, 104, 65, 47>> :>
         <<244, 59, 90, 24, 229, 163, 247, 118, 178, 196, 251, 102, 212, 177, 173, 168, 124, 140, 46, 78>>
    @@ <<90, 137, 30, 153, 182, 208, 211, 51, 210, 120, 129, 57, 234, 127, 108, 243, 170, 150, 19, 176>> :>
         <<230, 78, 48, 7, 143, 123, 210, 61, 162, 10, 117, 187, 38, 226, 160, 57, 45, 189, 232, 24>>
    @@ <<169, 186, 233, 138, 62, 156, 21, 178, 164, 174, 207, 111, 78, 42, 100, 73, 216, 196, 190, 162>> :>
         <<247, 215, 120, 142, 145, 68, 175, 84, 209, 170, 167, 135, 35, 224, 175, 144, 2, 14, 89, 100>>
    @@ <<176, 68, 144, 116, 198, 63, 78, 131, 38, 34, 230, 35, 85, 238, 131, 140, 161, 176, 42, 240>> :>
         <<116, 223, 27, 87, 66, 175, 191, 254, 131, 243, 187, 194, 120, 70, 65, 21, 18, 117, 84, 137>>
    @@ <<80, 18, 203, 47, 53, 144, 226, 244, 106, 253, 167, 91, 27, 157, 177, 83, 240, 46, 91, 109>> :>
         <<164, 23, 117, 168, 54, 25, 56, 121, 67, 61, 146, 15, 0, 208, 155, 26, 106, 187, 16, 74>>
    @@ <<79, 4, 249, 66, 53, 1, 64, 142, 133, 52, 170, 26, 254, 13, 45, 142, 229, 184, 61, 25>> :>
         <<247, 59, 132, 5, 146, 191, 178, 149, 202, 203, 64, 226, 3, 156, 94, 184, 121, 121, 58, 133>>
    @@ <<127, 117, 161, 32, 150, 165, 243, 93, 96, 190, 79, 224, 177, 47, 132, 70, 88, 125, 15, 184>> :>
         <<170, 144, 78, 234, 182, 115, 171, 254, 54, 87, 69, 187, 253, 13, 189, 84, 175, 99, 201, 182>>
    @@ <<100, 44, 40, 114, 133, 149, 77, 101, 203, 39, 101, 28, 130, 62, 111, 151, 130, 0, 24, 171>> :>
         <<56, 1, 209, 56, 47, 23, 226, 17, 183, 192, 220, 39, 62, 243, 35, 183, 238, 143, 235, 186>>
    @@ <<192, 247, 212, 2, 138, 151, 16, 152, 25, 228, 153, 225, 154, 222, 95, 199, 96, 196, 13, 80>> :>
         <<13, 174, 233, 135, 208, 29, 20, 131, 214, 183, 84, 157, 233, 21, 40, 125, 246, 19, 200, 166>>
    @@ <<4, 156, 144, 117, 234, 163, 106, 253, 194, 150, 10, 226, 22, 223, 44, 137, 164, 1, 139, 79>> :>
         <<66, 230, 95, 190, 27, 186, 73, 247, 146, 172, 39, 188, 191, 61, 91, 222, 14, 55, 147, 57>>
    @@ <<128, 43, 199, 207, 249, 239, 2, 130, 34, 16, 56, 221, 155, 45, 18, 62, 206, 153, 21, 17>> :>
         <<53, 99, 252, 171, 140, 251, 241, 27, 112, 194, 59, 161, 233, 36, 225, 70, 162, 247, 186, 169>>
    @@ <<54, 97, 110, 76, 213, 10, 151, 225, 107, 195, 151, 90, 214, 76, 28, 254, 235, 79, 168, 134>> :>
         <<146, 197, 142, 202, 8, 171, 209, 156, 55, 128, 195, 48, 253, 97, 134, 164, 7, 58, 37, 109>>
    @@ <<227, 82, 67, 15, 7, 125, 213, 61, 255, 141, 119, 128, 179, 67, 46, 58, 89, 160, 144, 177>> :>
         <<143, 164, 249, 65, 47, 243, 143, 22, 81, 228, 114, 8, 215, 236, 190, 143, 244, 183, 47, 220>>
    @@ <<36, 195, 193, 196, 132, 54, 208, 207, 211, 206, 156, 89, 69, 235, 65, 159, 235, 183, 101, 193>> :>
         <<194, 208, 5, 137, 51, 142, 183, 0, 219, 7, 180, 3, 118, 231, 149, 12, 93, 224, 170, 234>>
    @@ <<168, 64, 157, 27, 109, 251, 30, 210, 163, 232, 170, 94, 14, 242, 255, 38, 177, 91, 117, 183>> :>
         <<115, 227, 152, 132, 203, 113, 174, 78, 90, 201, 115, 158, 146, 37, 2, 108, 153, 118, 62, 102>>
    @@ <<150, 104, 189, 133, 55, 225, 235, 22, 155, 176, 0, 161, 77, 154, 243, 55, 96, 144, 169, 45>> :>
         <<64, 107, 115, 53, 84, 119, 50, 70, 173, 110, 234, 3, 195, 52, 152, 87, 28, 151, 98, 47>>
    @@ <<164, 194, 6, 94, 153, 10, 43, 90, 237, 130, 60, 56, 222, 12, 169, 86, 111, 135, 233, 130>> :>
         <<64, 223, 159, 23, 11, 42, 226, 70, 218, 55, 64, 14, 3, 32, 216, 38, 25, 5, 253, 66>>
    @@ <<172, 246, 57, 221, 71, 195, 251, 191, 241, 148, 176, 102, 219, 34, 74, 28, 215, 233, 202, 121>> :>
         <<178, 97, 188, 36, 49, 4, 229, 194, 84, 8, 241, 128, 0, 32, 54, 184, 171, 207, 144, 56>>
    @@ <<253, 23, 220, 112, 57, 58, 200, 90, 59, 217, 179, 138, 234, 237, 119, 105, 31, 130, 212, 48>> :>
         <<53, 72, 252, 236, 168, 83, 44, 49, 145, 177, 235, 81, 159, 136, 96, 4, 124, 186, 82, 87>>
    @@ <<238, 122, 185, 12, 222, 86, 168, 192, 226, 187, 8, 106, 196, 151, 72, 184, 219, 157, 206, 114>> :>
         <<231, 203, 75, 97, 175, 193, 48, 78, 74, 175, 78, 10, 22, 238, 242, 0, 184, 1, 94, 246>>
    @@ <<3, 186, 30, 27, 141, 92, 199, 200, 155, 64, 130, 188, 235, 220, 118, 206, 144, 228, 66, 112>> :>
         <<200, 213, 85, 7, 207, 235, 247, 207, 179, 27, 228, 144, 201, 163, 232, 186, 53, 153, 110, 173>>
    @@ <<150, 225, 46, 227, 175, 212, 7, 164, 240, 135, 193, 24, 137, 207, 105, 33, 134, 137, 244, 36>> :>
         <<112, 174, 16, 7, 15, 229, 99, 212, 130, 166, 42, 149, 238, 239, 61, 146, 197, 82, 124, 152>>
    @@ <<59, 65, 136, 216, 205, 46, 193, 218, 55, 100, 189, 5, 246, 75, 170, 214, 64, 68, 42, 50>> :>
         <<121, 128, 129, 25, 194, 64, 196, 103, 58, 234, 75, 2, 180, 243, 1, 248, 61, 172, 130, 193>>
    @@ <<7, 162, 103, 177, 180, 229, 110, 69, 145, 224, 230, 133, 182, 0, 238, 254, 42, 186, 155, 109>> :>
         <<237, 112, 18, 197, 118, 124, 15, 28, 65, 26, 59, 128, 132, 135, 225, 2, 23, 172, 178, 196>>
    @@ <<18, 166, 202, 32, 80, 98, 45, 210, 92, 92, 114, 75, 173, 78, 4, 176, 7, 174, 53, 113>> :>
         <<163, 33, 23, 204, 75, 82, 196, 107, 2, 151, 137, 236, 113, 180, 8, 101, 172, 9, 29, 93>>
    @@ <<93, 104, 120, 153, 127, 225, 89, 134, 21, 211, 242, 131, 115, 181, 242, 123, 38, 192, 32, 73>> :>
         <<62, 245, 73, 14, 83, 161, 143, 138, 49, 215, 144, 250, 48, 101, 23, 72, 176, 167, 31, 245>>
    @@ <<51, 86, 241, 238, 38, 13, 199, 243, 16, 175, 162, 90, 53, 197, 153, 240, 12, 154, 162, 81>> :>
         <<160, 151, 157, 9, 42, 143, 25, 163, 217, 7, 188, 25, 130, 54, 107, 21, 97, 19, 234, 25>>
    @@ <<234, 87, 56, 106, 220, 103, 84, 247, 146, 86, 127, 153, 222, 58, 123, 67, 231, 172, 161, 214>> :>
         <<85, 199, 195, 20, 228, 135, 73, 227, 207, 176, 76, 143, 138, 72, 225, 253, 80, 37, 104, 49>>
    @@ <<77, 202, 60, 240, 7, 12, 125, 240, 89, 76, 244, 151, 131, 114, 112, 237, 62, 54, 226, 79>> :>
         <<73, 7, 142, 15, 21, 77, 248, 69, 55, 108, 143, 160, 62, 13, 23, 70, 179, 87, 0, 64>>
    @@ <<193, 79, 169, 213, 124, 87, 237, 56, 170, 177, 61, 162, 236, 185, 201, 68, 134, 79, 142, 184>> :>
         <<56, 12, 176, 118, 70, 200, 155, 183, 203, 74, 5, 187, 187, 186, 109, 108, 113, 154, 69, 189>>
    @@ <<105, 147, 26, 241, 118, 27, 51, 105, 120, 165, 215, 208, 255, 234, 112, 163, 66, 100, 135, 252>> :>
         <<165, 192, 202, 188, 157, 136, 104, 225, 31, 49, 85, 81, 54, 35, 233, 239, 21, 234, 30, 63>>
    @@ <<35, 165, 181, 182, 200, 83, 166, 151, 128, 162, 6, 240, 197, 203, 224, 29, 227, 29, 253, 150>> :>
         <<209, 35, 212, 29, 110, 248, 124, 3, 46, 193, 137, 44, 238, 165, 104, 99, 80, 211, 80, 129>>
    @@ <<168, 247, 59, 215, 147, 74, 86, 150, 161, 176, 20, 99, 156, 6, 154, 103, 231, 185, 132, 175>> :>
         <<146, 127, 49, 48, 2, 53, 18, 253, 150, 195, 100, 15, 10, 125, 71, 110, 230, 185, 76, 178>>
    @@ <<158, 224, 118, 163, 214, 46, 16, 52, 123, 222, 164, 9, 202, 176, 72, 127, 123, 167, 84, 248>> :>
         <<148, 23, 41, 41, 166, 51, 131, 141, 224, 93, 241, 209, 71, 130, 150, 118, 136, 97, 28, 102>>
    @@ <<72, 153, 225, 122, 88, 87, 157, 224, 22, 235, 167, 92, 74, 242, 58, 231, 68, 11, 160, 62>> :>
         <<103, 78, 138, 221, 33, 83, 25, 99, 95, 118, 115, 109, 94, 168, 47, 238, 223, 85, 74, 40>>
    @@ <<46, 231, 62, 107, 32, 132, 203, 16, 59, 14, 210, 14, 247, 56, 54, 184, 5, 82, 207, 150>> :>
         <<75, 83, 155, 103, 149, 222, 199, 123, 249, 62, 111, 129, 24, 12, 210, 115, 249, 66, 154, 19>>
    @@ <<135, 23, 134, 144, 51, 227, 46, 254, 209, 110, 105, 142, 192, 59, 223, 249, 237, 30, 77, 7>> :>
         <<67, 255, 54, 105, 117, 250, 80, 179, 214, 134, 91, 186, 191, 76, 27, 125, 58, 38, 28, 94>>
    @@ <<49, 49, 180, 251, 254, 242, 46, 238, 182, 200, 146, 128, 161, 154, 139, 95, 178, 151, 37, 65>> :>
         <<34, 38, 227, 37, 247, 218, 208, 193, 1, 87, 231, 228, 3, 177, 161, 37, 200, 155, 80, 167>>
    @@ <<59, 244, 215, 233, 140, 120, 128, 159, 217, 229, 151, 157, 196, 75, 53, 36, 178, 122, 211, 235>> :>
         <<145, 58, 199, 246, 136, 159, 145, 154, 252, 32, 229, 68, 251, 169, 26, 111, 227, 170, 240, 214>>
    @@ <<154, 201, 118, 161, 67, 177, 134, 28, 4, 211, 26, 176, 253, 243, 36, 172, 108, 57, 72, 10>> :>
         <<232, 228, 52, 204, 254, 161, 77, 172, 129, 15, 251, 246, 142, 83, 115, 36, 31, 78, 176, 121>>
    @@ <<196, 8, 206, 48, 186, 79, 88, 41, 21, 187, 115, 202, 162, 198, 38, 132, 198, 7, 18, 47>> :>
         <<139, 200, 22, 114, 157, 160, 15, 169, 250, 45, 218, 105, 88, 206, 72, 141, 98, 136, 119, 58>>
    @@ <<149, 227, 75, 153, 118, 38, 127, 59, 89, 0, 138, 130, 121, 228, 87, 58, 196, 1, 126, 114>> :>
         <<144, 99, 91, 55, 244, 3, 167, 235, 253, 78, 148, 185, 6, 74, 11, 38, 249, 105, 35, 23>>
    @@ <<138, 231, 108, 123, 220, 249, 203, 43, 42, 224, 202, 80, 116, 35, 21, 163, 13, 225, 31, 39>> :>
         <<76, 167, 237, 217, 18, 115, 22, 102, 227, 194, 138, 61, 60, 126, 15, 141, 36, 60, 122, 120>>
    @@ <<181, 237, 38, 146, 156, 187, 103, 8, 161, 98, 68, 15, 234, 185, 0, 94, 140, 47, 226, 161>> :>
         <<12, 211, 136, 55, 113, 39, 193, 44, 5, 116, 39, 47, 152, 83, 124, 86, 57, 168, 173, 237>>
    @@ <<85, 204, 73, 111, 251, 165, 109, 229, 186, 50, 83, 64, 147, 139, 157, 23, 18, 62, 153, 11>> :>
         <<193, 154, 25, 211, 10, 130, 242, 107, 197, 181, 61, 199, 90, 58, 212, 122, 138, 226, 35, 55>>
    @@ <<25, 131, 156, 135, 254, 97, 14, 72, 103, 66, 189, 110, 120, 181, 42, 130, 72, 137, 57, 110>> :>
         <<12, 149, 11, 134, 127, 110, 141, 40, 82, 86, 52, 45, 139, 193, 90, 117, 186, 200, 189, 87>>
    @@ <<95, 139, 73, 118, 159, 35, 145, 234, 217, 75, 83, 113, 126, 205, 22, 89, 236, 138, 66, 169>> :>
         <<41, 122, 37, 99, 215, 93, 177, 125, 153, 172, 237, 164, 147, 222, 187, 51, 128, 15, 98, 40>>
    @@ <<60, 134, 223, 169, 153, 64, 87, 162, 160, 254, 144, 120, 189, 120, 162, 45, 37, 45, 130, 190>> :>
         <<242, 249, 6, 27, 53, 252, 195, 43, 233, 225, 103, 203, 83, 122, 247, 173, 33, 174, 131, 19>>
    @@ <<228, 11, 181, 44, 12, 73, 30, 240, 114, 73, 225, 11, 39, 38, 109, 207, 136, 67, 215, 82>> :>
         <<90, 45, 96, 158, 124, 244, 23, 107, 253, 127, 46, 174, 57, 138, 165, 70, 65, 33, 185, 92>>
    @@ <<121, 49, 30, 120, 152, 38, 134, 146, 106, 143, 131, 43, 98, 108, 223, 41, 98, 159, 183, 242>> :>
         <<212, 168, 135, 249, 225, 167, 252, 80, 26, 60, 226, 73, 97, 248, 113, 166, 7, 78, 182, 101>>
    @@ <<27, 88, 113, 8, 94, 180, 210, 86, 107, 238, 27, 94, 215, 64, 4, 214, 45, 202, 72, 5>> :>
         <<79, 99, 227, 126, 122, 235, 24, 232, 231, 174, 127, 220, 188, 253, 105, 145, 107, 193, 22, 110>>
    @@ <<87, 129, 159, 38, 202, 85, 10, 78, 227, 68, 163, 56, 67, 208, 101, 27, 144, 80, 107, 249>> :>
         <<24, 2, 211, 55, 220, 7, 230, 87, 132, 4, 112, 239, 24, 17, 66, 132, 88, 110, 189, 31>>
    @@ <<76, 247, 236, 218, 97, 225, 162, 156, 154, 16, 52, 222, 83, 155, 23, 38, 213, 56, 217, 99>> :>
         <<95, 170, 74, 171, 47, 232, 166, 14, 176, 103, 76, 43, 198, 17, 95, 149, 43, 240, 133, 212>>
    @@ <<75, 101, 79, 111, 52, 131, 88, 93, 153, 248, 45, 203, 183, 226, 133, 158, 101, 173, 136, 67>> :>
         <<173, 203, 50, 254, 75, 239, 162, 245, 213, 49, 46, 53, 223, 81, 49, 254, 35, 94, 244, 30>>
    @@ <<224, 196, 51, 41, 95, 228, 166, 232, 241, 234, 253, 13, 91, 133, 128, 75, 11, 6, 5, 218>> :>
         <<53, 57, 4, 139, 215, 206, 127, 161, 223, 166, 229, 153, 126, 124, 171, 87, 98, 184, 212, 252>>
    @@ <<2, 226, 64, 155, 78, 167, 247, 137, 96, 43, 23, 1, 148, 115, 38, 181, 137, 185, 218, 35>> :>
         <<208, 213, 191, 154, 182, 61, 164, 89, 195, 246, 50, 96, 36, 231, 45, 10, 18, 234, 146, 112>>
    @@ <<17, 74, 113, 123, 133, 117, 222, 20, 180, 130, 104, 74, 184, 9, 4, 159, 163, 243, 112, 229>> :>
         <<39, 124, 28, 39, 238, 200, 104, 51, 5, 239, 40, 214, 12, 138, 100, 4, 14, 3, 252, 8>>
    @@ <<165, 148, 129, 114, 83, 221, 71, 105, 204, 124, 239, 219, 83, 42, 112, 185, 51, 158, 189, 102>> :>
         <<90, 176, 159, 119, 236, 77, 127, 88, 51, 69, 190, 24, 212, 229, 105, 12, 13, 59, 77, 57>>
    @@ <<185, 159, 177, 25, 206, 12, 173, 90, 195, 218, 13, 28, 93, 125, 20, 242, 48, 59, 72, 60>> :>
         <<134, 116, 53, 67, 109, 243, 239, 20, 103, 217, 2, 7, 73, 180, 211, 250, 129, 77, 146, 181>>
    @@ <<114, 52, 51, 62, 231, 19, 7, 7, 214, 140, 244, 225, 245, 147, 135, 78, 129, 84, 233, 79>> :>
         <<22, 58, 52, 63, 180, 206, 109, 170, 147, 93, 82, 185, 86, 60, 59, 83, 204, 206, 53, 113>>

\* BIP-32 CKDpub for a normal index: <<chain code, public key, index>> to the
\* child's <<chain code, public key>> (HMAC-SHA512 and a point addition),
\* for the keys above along every path a run can take
CKDpub ==
       <<<<11, 87, 177, 42, 43, 190, 30, 25, 38, 159, 231, 34, 13, 129, 70, 43, 102, 209, 126, 65, 78, 69, 96, 55, 165, 147, 5, 121, 241, 49, 141, 3>>,
         <<2, 5, 158, 8, 17, 43, 152, 209, 192, 217, 95, 254, 56, 17, 146, 129, 230, 76, 216, 132, 81, 192, 227, 198, 14, 51, 230, 70, 202, 5, 125, 5, 228>>, 0>> :>
         <<<<115, 255, 154, 251, 209, 228, 64, 133, 165, 201, 101, 47, 27, 215, 242, 61, 43, 14, 91, 186, 211, 198, 100, 89, 121, 76, 19, 5, 53, 26, 105, 19>>,
         <<2, 191, 137, 77, 150, 115, 198, 219, 174, 13, 168, 155, 150, 113, 60, 20, 204, 38, 168, 69, 246, 126, 187, 13, 111, 206, 16, 252, 25, 81, 245, 122, 234>>>>
    @@ <<<<11, 87, 177, 42, 43, 190, 30, 25, 38, 159, 231, 34, 13, 129, 70, 43, 102, 209, 126, 65, 78, 69, 96, 55, 165, 147, 5, 121, 241, 49, 141, 3>>,
         <<2, 5, 158, 8, 17, 43, 152, 209, 192, 217, 95, 254, 56, 17, 146, 129, 230, 76, 216, 132, 81, 192, 227, 198, 14, 51, 230, 70, 202, 5, 125, 5, 228>>, 1>> :>
         <<<<188, 9, 69, 62, 244, 114, 218, 51, 128, 54, 174, 14, 26, 52, 166, 133, 33, 29, 18, 8, 204, 209, 176, 171, 115, 148, 57, 249, 93, 183, 145, 26>>,
         <<2, 138, 43, 14, 228, 125, 193, 19, 221, 143, 192, 23, 254, 12, 37, 103, 189, 53, 132, 236, 180, 241, 1, 45, 53, 130, 186, 198, 252, 184, 118, 100, 94>>>>
    @@ <<<<11, 87, 177, 42, 43, 190, 30, 25, 38, 159, 231, 34, 13, 129, 70, 43, 102, 209, 126, 65, 78, 69, 96, 55, 165, 147, 5, 121, 241, 49, 141, 3>>,
         <<2, 5, 158, 8, 17, 43, 152, 209, 192, 217, 95, 254, 56, 17, 146, 129, 230, 76, 216, 132, 81, 192, 227, 198, 14, 51, 230, 70, 202, 5, 125, 5, 228>>, 2>> :>
         <<<<151, 200, 155, 65, 44, 15, 154, 2, 53, 223, 132, 245, 124, 69, 94, 85, 106, 235, 99, 72, 254, 247, 166, 120, 175, 234, 202, 21, 92, 114, 32, 118>>,
         <<2, 35, 235, 185, 32, 211, 32, 21, 241, 113, 141, 114, 124, 28, 235, 172, 16, 131, 111, 12, 12, 27, 27, 82, 228, 125, 246, 196, 66, 34, 104, 53, 154>>>>
    @@ <<<<101, 124, 42, 40, 126, 102, 88, 80, 115, 222, 51, 15, 121, 125, 65, 241, 76, 134, 39, 29, 215, 250, 26, 174, 63, 89, 168, 24, 131, 96, 220, 250>>,
         <<2, 23, 55, 136, 174, 38, 63, 144, 201, 46, 156, 212, 9, 125, 124, 217, 195, 123, 110, 20, 227, 136, 30, 121, 9, 77, 226, 154, 166, 193, 164, 244, 31>>, 0>> :>
         <<<<133, 186, 198, 69, 170, 251, 86, 199, 164, 202, 138, 53, 13, 136, 22, 126, 35, 19, 212, 162, 83, 207, 141, 189, 131, 234, 19, 45, 246, 253, 175, 29>>,
         <<2, 172, 84, 22, 118, 163, 31, 100, 73, 118, 132, 154, 28, 212, 7, 248, 97, 61, 225, 93, 136, 140, 79, 7, 3, 119, 220, 219, 78, 126, 100, 171, 94>>>>
    @@ <<<<101, 124, 42, 40, 126, 102, 88, 80, 115, 222, 51, 15, 121, 125, 65, 241, 76, 134, 39, 29, 215, 250, 26, 174, 63, 89, 168, 24, 131, 96, 220, 250>>,
         <<2, 23, 55, 136, 174, 38, 63, 144, 201, 46, 156, 212, 9, 125, 124, 217, 195, 123, 110, 20, 227, 136, 30, 121, 9, 77, 226, 154, 166, 193, 164, 244, 31>>, 1>> :>
         <<<<25, 101, 245, 208, 163, 153, 58, 91, 226, 76, 195, 53, 167, 95, 254, 69, 78, 228, 168, 135, 178, 199, 251, 59, 13, 19, 253, 191, 166, 216, 171, 94>>,
         <<3, 26, 33, 13, 239, 106, 120, 152, 227, 106, 96, 106, 147, 46, 86, 224, 44, 221, 38, 21, 56, 3, 79, 48, 146, 56, 81, 26, 81, 8, 222, 81, 112>>>>
    @@ <<<<101, 124, 42, 40, 126, 102, 88, 80, 115, 222, 51, 15, 121, 125, 65, 241, 76, 134, 39, 29, 215, 250, 26, 174, 63, 89, 168, 24, 131, 96, 220, 250>>,
         <<2, 23, 55, 136, 174, 38, 63, 144, 201, 46, 156, 212, 9, 125, 124, 217, 195, 123, 110, 20, 227, 136, 30, 121, 9, 77, 226, 154, 166, 193, 164, 244, 31>>, 2>> :>
         <<<<115, 144, 233, 85, 200, 68, 227, 162, 159, 179, 9, 135, 44, 103, 88, 252, 179, 80, 41, 238, 191, 244, 174, 170, 176, 7, 239, 3, 27, 189, 254, 250>>,
         <<2, 107, 109, 37, 164, 187, 190, 140, 200, 214, 10, 97, 34, 240, 101, 85, 226, 225, 143, 39, 175, 242, 194, 174, 174, 188, 6, 202, 120, 20, 18, 207, 229>>>>
    @@ <<<<131, 233, 227, 8, 200, 7, 161, 100, 154, 57, 18, 228, 35, 237, 13, 182, 64, 20, 253, 242, 70, 99, 209, 85, 205, 60, 34, 81, 200, 84, 27, 133>>,
         <<2, 38, 255, 245, 84, 232, 170, 54, 57, 6, 123, 207, 254, 214, 59, 135, 240, 184, 208, 123, 194, 210, 130, 89, 33, 187, 199, 8, 110, 241, 97, 14, 106>>, 0>> :>
         <<<<140, 205, 227, 141, 37, 232, 181, 30, 141, 13, 116, 159, 238, 250, 216, 155, 52, 35, 209, 200, 206, 232, 201, 141, 6, 31, 61, 3, 128, 120, 22, 5>>,
         <<2, 239, 176, 68, 233, 236, 65, 31, 115, 3, 42, 225, 176, 227, 218, 117, 214, 42, 187, 88, 201, 198, 168, 3, 254, 86, 251, 185, 33, 12, 55, 141, 141>>>>
    @@ <<<<131, 233, 227, 8, 200, 7, 161, 100, 154, 57, 18, 228, 35, 237, 13, 182, 64, 20, 253, 242, 70, 99, 209, 85, 205, 60, 34, 81, 200, 84, 27, 133>>,
         <<2, 38, 255, 245, 84, 232, 170, 54, 57, 6, 123, 207, 254, 214, 59, 135, 240, 184, 208, 123, 194, 210, 130, 89, 33, 187, 199, 8, 110, 241, 97, 14, 106>>, 1>> :>
         <<<<112, 8, 85, 248, 15, 60, 135, 198, 222, 154, 212, 85, 3, 135, 51, 230, 53, 203, 86, 25, 57, 78, 153, 200, 29, 141, 137, 156, 80, 110, 163, 18>>,
         <<3, 115, 45, 201, 229, 7, 254, 26, 68, 175, 203, 242, 240, 113, 192, 77, 59, 102, 204, 176, 32, 242, 212, 255, 156, 138, 163, 219, 245, 44, 198, 198, 20>>>>
    @@ <<<<131, 233, 227, 8, 200, 7, 161, 100, 154, 57, 18, 228, 35, 237, 13, 182, 64, 20, 253, 242, 70, 99, 209, 85, 205, 60, 34, 81, 200, 84, 27, 133>>,
         <<2, 38, 255, 245, 84, 232, 170, 54, 57, 6, 123, 207, 254, 214, 59, 135, 240, 184, 208, 123, 194, 210, 130, 89, 33, 187, 199, 8, 110, 241, 97, 14, 106>>, 2>> :>
         <<<<245, 56, 123, 203, 226, 91, 88, 29, 12, 142, 219, 97, 66, 8, 222, 167, 150, 159, 239, 31, 167, 227, 159, 91, 135, 52, 114, 69, 244, 105, 242, 156>>,
         <<3, 192, 18, 201, 23, 114, 175, 29, 86, 37, 97, 74, 194, 139, 80, 7, 135, 175, 206, 14, 129, 8, 149, 65, 132, 87, 117, 40, 25, 101, 14, 91, 103>>>>
    @@ <<<<80, 91, 82, 67, 58, 13, 194, 49, 239, 171, 215, 215, 66, 228, 79, 98, 116, 103, 156, 236, 82, 143, 148, 109, 120, 60, 124, 49, 125, 146, 43, 81>>,
         <<2, 41, 46, 182, 134, 218, 104, 71, 12, 220, 29, 171, 203, 150, 40, 124, 128, 215, 97, 32, 233, 40, 48, 97, 159, 89, 228, 28, 16, 106, 141, 67, 105>>, 0>> :>
         <<<<77, 92, 138, 126, 230, 74, 12, 133, 20, 199, 214, 187, 45, 128, 216, 131, 87, 78, 227, 9, 237, 185, 105, 198, 178, 58, 29, 129, 69, 176, 1, 136>>,
         <<3, 227, 244, 140, 109, 253, 77, 66, 184, 75, 192, 63, 17, 98, 88, 230, 119, 229, 123, 199, 235, 73, 170, 182, 151, 204, 131, 38, 16, 138, 197, 119, 92>>>>
    @@ <<<<80, 91, 82, 67, 58, 13, 194, 49, 239, 171, 215, 215, 66, 228, 79, 98, 116, 103, 156, 236, 82, 143, 148, 109, 120, 60, 124, 49, 125, 146, 43, 81>>,
         <<2, 41, 46, 182, 134, 218, 104, 71, 12, 220, 29, 171, 203, 150, 40, 124, 128, 215, 97, 32, 233, 40, 48, 97, 159, 89, 228, 28, 16, 106, 141, 67, 105>>, 1>> :>
         <<<<11, 192, 125, 164, 63, 85, 90, 55, 16, 57, 105, 59, 217, 188, 85, 40, 103, 42, 255, 214, 175, 8, 218, 220, 7, 196, 172, 135, 194, 29, 23, 33>>,
         <<2, 154, 124, 163, 125, 73, 253, 27, 87, 141, 249, 244, 217, 176, 178, 13, 21, 191, 202, 128, 147, 213, 242, 75, 10, 33, 255, 140, 175, 85, 104, 2, 254>>>>
    @@ <<<<80, 91, 82, 67, 58, 13, 194, 49, 239, 171, 215, 215, 66, 228, 79, 98, 116, 103, 156, 236, 82, 143, 148, 109, 120, 60, 124, 49, 125, 146, 43, 81>>,
         <<2, 41, 46, 182, 134, 218, 104, 71, 12, 220, 29, 171, 203, 150, 40, 124, 128, 215, 97, 32, 233, 40, 48, 97, 159, 89, 228, 28, 16, 106, 141, 67, 105>>, 2>> :>
         <<<<90, 244, 91, 31, 48, 132, 106, 192, 193, 237, 151, 194, 219, 56, 123, 163, 252, 219, 96, 236, 63, 79, 205, 38, 210, 185, 134, 145, 70, 26, 69, 255>>,
         <<3, 111, 60, 227, 229, 239, 44, 223, 189, 219, 14, 144, 36, 98, 233, 181, 176, 46, 10, 140, 250, 200, 217, 191, 139, 233, 7, 143, 38, 98, 230, 120, 221>>>>
    @@ <<<<80, 91, 82, 67, 58, 13, 194, 49, 239, 171, 215, 215, 66, 228, 79, 98, 116, 103, 156, 236, 82, 143, 148, 109, 120, 60, 124, 49, 125, 146, 43, 81>>,
         <<2, 41, 46, 182, 134, 218, 104, 71, 12, 220, 29, 171, 203, 150, 40, 124, 128, 215, 97, 32, 233, 40, 48, 97, 159, 89, 228, 28, 16, 106, 141, 67, 105>>, 9>> :>
         <<<<172, 184, 127, 219, 136, 201, 37, 132, 209, 108, 114, 24, 99, 67, 58, 76, 196, 96, 240, 73, 230, 153, 217, 51, 231, 222, 209, 87, 45, 40, 248, 207>>,
         <<2, 15, 30, 31, 145, 67, 64, 73, 157, 103, 223, 10, 131, 154, 175, 71, 206, 252, 47, 74, 161, 210, 209, 178, 63, 29, 126, 152, 130, 17, 49, 243, 152>>>>
    @@ <<<<84, 63, 155, 237, 38, 20, 186, 65, 150, 175, 66, 76, 110, 156, 225, 75, 225, 253, 235, 64, 196, 177, 107, 183, 117, 128, 19, 192, 122, 76, 36, 148>>,
         <<2, 51, 236, 194, 118, 44, 76, 196, 125, 112, 21, 245, 60, 91, 58, 111, 231, 161, 151, 215, 109, 46, 58, 138, 234, 90, 211, 233, 40, 230, 96, 137, 160>>, 0>> :>
         <<<<47, 154, 166, 196, 58, 16, 230, 11, 144, 98, 10, 154, 87, 138, 243, 48, 95, 100, 162, 177, 100, 68, 154, 62, 72, 218, 222, 249, 173, 228, 46, 218>>,
         <<3, 132, 227, 221, 182, 144, 4, 245, 96, 145, 155, 7, 158, 241, 209, 54, 141, 226, 249, 19, 194, 124, 210, 72, 40, 234, 239, 161, 111, 176, 88, 45, 210>>>>
    @@ <<<<84, 63, 155, 237, 38, 20, 186, 65, 150, 175, 66, 76, 110, 156, 225, 75, 225, 253, 235, 64, 196, 177, 107, 183, 117, 128, 19, 192, 122, 76, 36, 148>>,
         <<2, 51, 236, 194, 118, 44, 76, 196, 125, 112, 21, 245, 60, 91, 58, 111, 231, 161, 151, 215, 109, 46, 58, 138, 234, 90, 211, 233, 40, 230, 96, 137, 160>>, 1>> :>
         <<<<38, 74, 34, 85, 130, 96, 101, 52, 166, 168, 206, 133, 157, 89, 18, 216, 119, 85, 101, 95, 104, 7, 28, 87, 61, 178, 1, 241, 132, 210, 31, 95>>,
         <<3, 84, 67, 17, 206, 14, 216, 195, 44, 253, 190, 137, 153, 14, 22, 206, 215, 80, 121, 43, 28, 5, 174, 67, 102, 153, 109, 58, 241, 198, 38, 111, 65>>>>
    @@ <<<<84, 63, 155, 237, 38, 20, 186, 65, 150, 175, 66, 76, 110, 156, 225, 75, 225, 253, 235, 64, 196, 177, 107, 183, 117, 128, 19, 192, 122, 76, 36, 148>>,
         <<2, 51, 236, 194, 118, 44, 76, 196, 125, 112, 21, 245, 60, 91, 58, 111, 231, 161, 151, 215, 109, 46, 58, 138, 234, 90, 211, 233, 40, 230, 96, 137, 160>>, 2>> :>
         <<<<238, 113, 135, 215, 239, 255, 166, 185, 76, 43, 166, 2, 129, 224, 149, 125, 23, 248, 113, 126, 52, 15, 169, 12, 148, 55, 67, 47, 59, 49, 106, 195>>,
         <<3, 193, 0, 242, 114, 36, 96, 60, 251, 123, 238, 97, 114, 130, 240, 45, 198, 20, 115, 157, 250, 33, 181, 13, 124, 87, 104, 107, 26, 132, 139, 88, 215>>>>
    @@ <<<<194, 101, 231, 49, 233, 56, 132, 216, 78, 37, 222, 242, 109, 75, 178, 227, 26, 212, 23, 172, 228, 237, 123, 246, 136, 153, 111, 239, 150, 189, 168, 19>>,
         <<2, 67, 128, 43, 254, 226, 197, 129, 1, 213, 218, 129, 2, 143, 52, 128, 169, 35, 174, 90, 247, 113, 228, 5, 94, 222, 21, 68, 130, 233, 109, 161, 205>>, 0>> :>
         <<<<224, 73, 27, 117, 175, 47, 174, 248, 63, 151, 85, 30, 118, 9, 205, 54, 54, 135, 125, 114, 199, 64, 96, 191, 155, 28, 226, 222, 84, 56, 220, 84>>,
         <<2, 74, 194, 178, 55, 105, 251, 67, 58, 50, 28, 182, 2, 133, 61, 211, 89, 124, 149, 208, 237, 230, 121, 118, 4, 83, 83, 55, 32, 84, 164, 14, 19>>>>
    @@ <<<<194, 101, 231, 49, 233, 56, 132, 216, 78, 37, 222, 242, 109, 75, 178, 227, 26, 212, 23, 172, 228, 237, 123, 246, 136, 153, 111, 239, 150, 189, 168, 19>>,
         <<2, 67, 128, 43, 254, 226, 197, 129, 1, 213, 218, 129, 2, 143, 52, 128, 169, 35, 174, 90, 247, 113, 228, 5, 94, 222, 21, 68, 130, 233, 109, 161, 205>>, 1>> :>
         <<<<175, 174, 136, 43, 11, 89, 0, 121, 127, 126, 187, 189, 139, 42, 137, 84, 230, 119, 55, 39, 131, 201, 75, 182, 154, 142, 247, 151, 98, 214, 160, 204>>,
         <<3, 204, 90, 237, 216, 205, 196, 47, 242, 160, 139, 65, 29, 247, 33, 43, 193, 17, 156, 63, 142, 59, 217, 182, 201, 141, 1, 155, 2, 100, 240, 219, 133>>>>
    @@ <<<<194, 101, 231, 49, 233, 56, 132, 216, 78, 37, 222, 242, 109, 75, 178, 227, 26, 212, 23, 172, 228, 237, 123, 246, 136, 153, 111, 239, 150, 189, 168, 19>>,
         <<2, 67, 128, 43, 254, 226, 197, 129, 1, 213, 218, 129, 2, 143, 52, 128, 169, 35, 174, 90, 247, 113, 228, 5, 94, 222, 21, 68, 130, 233, 109, 161, 205>>, 2>> :>
         <<<<208, 183, 42, 240, 189, 65, 124, 55, 174, 6, 118, 92, 134, 28, 185, 124, 117, 171, 192, 159, 24, 247, 59, 243, 253, 85, 242, 52, 189, 57, 163, 196>>,
         <<3, 144, 55, 83, 85, 167, 145, 187, 39, 241, 247, 144, 182, 127, 194, 0, 128, 209, 208, 25, 144, 27, 192, 27, 112, 219, 187, 244, 86, 80, 245, 158, 215>>>>
    @@ <<<<224, 73, 27, 117, 175, 47, 174, 248, 63, 151, 85, 30, 118, 9, 205, 54, 54, 135, 125, 114, 199, 64, 96, 191, 155, 28, 226, 222, 84, 56, 220, 84>>,
         <<2, 74, 194, 178, 55, 105, 251, 67, 58, 50, 28, 182, 2, 133, 61, 211, 89, 124, 149, 208, 237, 230, 121, 118, 4, 83, 83, 55, 32, 84, 164, 14, 19>>, 0>> :>
         <<<<63, 151, 97, 70, 253, 30, 42, 56, 238, 209, 135, 132, 99, 239, 226, 144, 189, 215, 59, 199, 124, 110, 156, 26, 220, 184, 118, 79, 27, 17, 229, 234>>,
         <<2, 94, 49, 224, 196, 144, 160, 99, 117, 60, 181, 64, 176, 80, 198, 72, 29, 17, 190, 232, 102, 40, 2, 47, 94, 253, 33, 186, 59, 21, 134, 194, 93>>>>
    @@ <<<<224, 73, 27, 117, 175, 47, 174, 248, 63, 151, 85, 30, 118, 9, 205, 54, 54, 135, 125, 114, 199, 64, 96, 191, 155, 28, 226, 222, 84, 56, 220, 84>>,
         <<2, 74, 194, 178, 55, 105, 251, 67, 58, 50, 28, 182, 2, 133, 61, 211, 89, 124, 149, 208, 237, 230, 121, 118, 4, 83, 83, 55, 32, 84, 164, 14, 19>>, 1>> :>
         <<<<56, 177, 169, 55, 204, 255, 180, 134, 212, 68, 84, 184, 97, 179, 182, 133, 82, 234, 144, 207, 152, 116, 167, 102, 32, 208, 3, 43, 12, 240, 105, 0>>,
         <<2, 66, 218, 40, 85, 72, 217, 147, 131, 137, 178, 235, 224, 169, 190, 170, 101, 4, 183, 19, 143, 30, 206, 130, 251, 211, 161, 233, 112, 205, 75, 107, 187>>>>
    @@ <<<<224, 73, 27, 117, 175, 47, 174, 248, 63, 151, 85, 30, 118, 9, 205, 54, 54, 135, 125, 114, 199, 64, 96, 191, 155, 28, 226, 222, 84, 56, 220, 84>>,
         <<2, 74, 194, 178, 55, 105, 251, 67, 58, 50, 28, 182, 2, 133, 61, 211, 89, 124, 149, 208, 237, 230, 121, 118, 4, 83, 83, 55, 32, 84, 164, 14, 19>>, 2>> :>
         <<<<143, 209, 62, 59, 222, 132, 176, 185, 169, 145, 51, 115, 175, 84, 154, 76, 65, 18, 115, 243, 60, 134, 45, 162, 228, 65, 251, 155, 122, 79, 196, 222>>,
         <<3, 105, 207, 143, 182, 13, 234, 126, 185, 32, 204, 180, 179, 226, 73, 72, 85, 63, 95, 224, 104, 9, 112, 154, 237, 117, 167, 217, 181, 88, 163, 47, 34>>>>
    @@ <<<<115, 144, 233, 85, 200, 68, 227, 162, 159, 179, 9, 135, 44, 103, 88, 252, 179, 80, 41, 238, 191, 244, 174, 170, 176, 7, 239, 3, 27, 189, 254, 250>>,
         <<2, 107, 109, 37, 164, 187, 190, 140, 200, 214, 10, 97, 34, 240, 101, 85, 226, 225, 143, 39, 175, 242, 194, 174, 174, 188, 6, 202, 120, 20, 18, 207, 229>>, 0>> :>
         <<<<22, 229, 184, 112, 182, 170, 234, 129, 68, 79, 117, 9, 75, 179, 45, 204, 167, 33, 27, 5, 37, 254, 212, 123, 20, 156, 191, 232, 87, 55, 91, 39>>,
         <<2, 175, 225, 29, 63, 52, 214, 227, 11, 96, 73, 67, 117, 186, 174, 162, 58, 13, 231, 144, 160, 237, 131, 184, 175, 84, 37, 180, 6, 23, 237, 218, 123>>>>
    @@ <<<<115, 144, 233, 85, 200, 68, 227, 162, 159, 179, 9, 135, 44, 103, 88, 252, 179, 80, 41, 238, 191, 244, 174, 170, 176, 7, 239, 3, 27, 189, 254, 250>>,
         <<2, 107, 109, 37, 164, 187, 190, 140, 200, 214, 10, 97, 34, 240, 101, 85, 226, 225, 143, 39, 175, 242, 194, 174, 174, 188, 6, 202, 120, 20, 18, 207, 229>>, 1>> :>
         <<<<203, 234, 166, 87, 170, 158, 233, 89, 62, 211, 197, 40, 120, 19, 111, 156, 166, 107, 251, 174, 54, 36, 107, 142, 31, 224, 143, 242, 219, 45, 187, 176>>,
         <<3, 3, 30, 199, 147, 78, 255, 32, 185, 143, 122, 137, 117, 193, 222, 175, 113, 51, 10, 2, 35, 42, 235, 18, 53, 4, 219, 9, 136, 81, 120, 1, 68>>>>
    @@ <<<<115, 144, 233, 85, 200, 68, 227, 162, 159, 179, 9, 135, 44, 103, 88, 252, 179, 80, 41, 238, 191, 244, 174, 170, 176, 7, 239, 3, 27, 189, 254, 250>>,
         <<2, 107, 109, 37, 164, 187, 190, 140, 200, 214, 10, 97, 34, 240, 101, 85, 226, 225, 143, 39, 175, 242, 194, 174, 174, 188, 6, 202, 120, 20, 18, 207, 229>>, 2>> :>
         <<<<220, 204, 236, 182, 149, 113, 11, 129, 197, 49, 201, 17, 96, 71, 198, 25, 232, 238, 101, 6, 36, 25, 125, 32, 27, 18, 211, 152, 200, 161, 241, 143>>,
         <<3, 14, 233, 154, 19, 17, 75, 59, 90, 187, 112, 100, 72, 239, 12, 16, 161, 15, 121, 198, 49, 252, 230, 155, 49, 165, 32, 199, 9, 19, 157, 16, 165>>>>
    @@ <<<<233, 37, 164, 132, 71, 69, 66, 166, 106, 117, 5, 31, 143, 177, 73, 0, 162, 255, 106, 113, 84, 64, 242, 126, 215, 59, 232, 234, 24, 195, 213, 228>>,
         <<2, 120, 255, 203, 45, 175, 236, 47, 197, 25, 132, 224, 242, 220, 223, 75, 72, 158, 190, 117, 225, 163, 73, 54, 47, 35, 128, 1, 5, 102, 112, 225, 110>>, 0>> :>
         <<<<88, 105, 17, 33, 239, 186, 23, 223, 50, 74, 122, 133, 112, 105, 167, 23, 236, 135, 153, 46, 128, 41, 184, 170, 94, 198, 236, 141, 62, 255, 147, 55>>,
         <<2, 252, 225, 50, 103, 251, 91, 203, 95, 22, 112, 127, 99, 221, 149, 89, 155, 155, 206, 111, 124, 14, 135, 29, 117, 133, 52, 245, 164, 208, 124, 238, 102>>>>
    @@ <<<<233, 37, 164, 132, 71, 69, 66, 166, 106, 117, 5, 31, 143, 177, 73, 0, 162, 255, 106, 113, 84, 64, 242, 126, 215, 59, 232, 234, 24, 195, 213, 228>>,
         <<2, 120, 255, 203, 45, 175, 236, 47, 197, 25, 132, 224, 242, 220, 223, 75, 72, 158, 190, 117, 225, 163, 73, 54, 47, 35, 128, 1, 5, 102, 112, 225, 110>>, 1>> :>
         <<<<213, 141, 20, 55, 205, 220, 178, 96, 255, 74, 41, 67, 118, 115, 234, 55, 94, 102, 152, 190, 61, 161, 200, 194, 39, 21, 194, 179, 124, 184, 6, 65>>,
         <<2, 62, 181, 154, 241, 189, 164, 244, 139, 104, 255, 62, 240, 137, 145, 124, 143, 30, 136, 76, 123, 27, 209, 52, 203, 230, 224, 175, 112, 250, 16, 115, 13>>>>
    @@ <<<<233, 37, 164, 132, 71, 69, 66, 166, 106, 117, 5, 31, 143, 177, 73, 0, 162, 255, 106, 113, 84, 64, 242, 126, 215, 59, 232, 234, 24, 195, 213, 228>>,
         <<2, 120, 255, 203, 45, 175, 236, 47, 197, 25, 132, 224, 242, 220, 223, 75, 72, 158, 190, 117, 225, 163, 73, 54, 47, 35, 128, 1, 5, 102, 112, 225, 110>>, 2>> :>
         <<<<213, 3, 98, 133, 160, 22, 144, 209, 133, 88, 234, 81, 218, 5, 137, 29, 179, 197, 119, 46, 151, 229, 37, 233, 102, 37, 201, 95, 254, 246, 124, 180>>,
         <<3, 165, 93, 115, 254, 188, 140, 4, 186, 212, 221, 163, 168, 95, 131, 150, 121, 46, 21, 39, 239, 80, 207, 199, 186, 121, 195, 155, 108, 46, 59, 239, 242>>>>
    @@ <<<<11, 192, 125, 164, 63, 85, 90, 55, 16, 57, 105, 59, 217, 188, 85, 40, 103, 42, 255, 214, 175, 8, 218, 220, 7, 196, 172, 135, 194, 29, 23, 33>>,
         <<2, 154, 124, 163, 125, 73, 253, 27, 87, 141, 249, 244, 217, 176, 178, 13, 21, 191, 202, 128, 147, 213, 242, 75, 10, 33, 255, 140, 175, 85, 104, 2, 254>>, 0>> :>
         <<<<23, 248, 91, 234, 129, 25, 1, 217, 155, 205, 36, 224, 100, 108, 153, 185, 141, 56, 124, 47, 90, 85, 85, 46, 188, 165, 209, 218, 126, 239, 240, 251>>,
         <<3, 158, 194, 163, 189, 222, 74, 223, 171, 189, 170, 126, 97, 55, 124, 67, 72, 236, 7, 60, 249, 48, 123, 70, 34, 102, 20, 10, 136, 63, 75, 59, 235>>>>
    @@ <<<<11, 192, 125, 164, 63, 85, 90, 55, 16, 57, 105, 59, 217, 188, 85, 40, 103, 42, 255, 214, 175, 8, 218, 220, 7, 196, 172, 135, 194, 29, 23, 33>>,
         <<2, 154, 124, 163, 125, 73, 253, 27, 87, 141, 249, 244, 217, 176, 178, 13, 21, 191, 202, 128, 147, 213, 242, 75, 10, 33, 255, 140, 175, 85, 104, 2, 254>>, 1>> :>
         <<<<137, 210, 226, 17, 128, 54, 163, 105, 44, 132, 39, 222, 154, 188, 145, 229, 115, 243, 193, 132, 239, 226, 9, 117, 175, 191, 88, 191, 40, 92, 42, 22>>,
         <<3, 234, 141, 128, 165, 173, 26, 219, 142, 5, 169, 125, 143, 51, 222, 44, 231, 102, 157, 94, 209, 245, 29, 14, 39, 29, 133, 191, 4, 180, 174, 217, 162>>>>
    @@ <<<<11, 192, 125, 164, 63, 85, 90, 55, 16, 57, 105, 59, 217, 188, 85, 40, 103, 42, 255, 214, 175, 8, 218, 220, 7, 196, 172, 135, 194, 29, 23, 33>>,
         <<2, 154, 124, 163, 125, 73, 253, 27, 87, 141, 249, 244, 217, 176, 178, 13, 21, 191, 202, 128, 147, 213, 242, 75, 10, 33, 255, 140, 175, 85, 104, 2, 254>>, 2>> :>
         <<<<21, 126, 223, 63, 45, 66, 226, 156, 82, 195, 237, 243, 49, 79, 137, 122, 89, 243, 224, 185, 136, 178, 225, 18, 39, 223, 61, 141, 153, 197, 27, 160>>,
         <<3, 38, 70, 232, 33, 39, 6, 7, 155, 213, 81, 69, 129, 136, 107, 2, 252, 247, 102, 83, 122, 233, 213, 215, 144, 252, 94, 100, 44, 96, 211, 132, 62>>>>
    @@ <<<<133, 186, 198, 69, 170, 251, 86, 199, 164, 202, 138, 53, 13, 136, 22, 126, 35, 19, 212, 162, 83, 207, 141, 189, 131, 234, 19, 45, 246, 253, 175, 29>>,
         <<2, 172, 84, 22, 118, 163, 31, 100, 73, 118, 132, 154, 28, 212, 7, 248, 97, 61, 225, 93, 136, 140, 79, 7, 3, 119, 220, 219, 78, 126, 100, 171, 94>>, 0>> :>
         <<<<1, 73, 136, 82, 69, 164, 157, 113, 22, 69, 129, 141, 146, 11, 249, 79, 72, 150, 74, 57, 187, 153, 137, 253, 94, 3, 135, 104, 223, 11, 24, 58>>,
         <<2, 121, 136, 202, 245, 191, 76, 221, 32, 103, 30, 78, 172, 202, 192, 9, 207, 111, 36, 50, 189, 97, 24, 187, 163, 224, 89, 14, 39, 130, 138, 219, 131>>>>
    @@ <<<<133, 186, 198, 69, 170, 251, 86, 199, 164, 202, 138, 53, 13, 136, 22, 126, 35, 19, 212, 162, 83, 207, 141, 189, 131, 234, 19, 45, 246, 253, 175, 29>>,
         <<2, 172, 84, 22, 118, 163, 31, 100, 73, 118, 132, 154, 28, 212, 7, 248, 97, 61, 225, 93, 136, 140, 79, 7, 3, 119, 220, 219, 78, 126, 100, 171, 94>>, 1>> :>
         <<<<111, 209, 31, 48, 75, 32, 215, 183, 89, 38, 114, 249, 126, 217, 109, 144, 230, 160, 62, 44, 225, 51, 202, 128, 233, 207, 130, 77, 226, 109, 100, 105>>,
         <<3, 20, 2, 141, 196, 87, 72, 154, 83, 165, 23, 180, 113, 169, 39, 171, 157, 118, 236, 26, 203, 198, 39, 210, 97, 152, 43, 87, 147, 151, 168, 75, 65>>>>
    @@ <<<<133, 186, 198, 69, 170, 251, 86, 199, 164, 202, 138, 53, 13, 136, 22, 126, 35, 19, 212, 162, 83, 207, 141, 189, 131, 234, 19, 45, 246, 253, 175, 29>>,
         <<2, 172, 84, 22, 118, 163, 31, 100, 73, 118, 132, 154, 28, 212, 7, 248, 97, 61, 225, 93, 136, 140, 79, 7, 3, 119, 220, 219, 78, 126, 100, 171, 94>>, 2>> :>
         <<<<140, 152, 65, 21, 126, 116, 94, 145, 26, 223, 57, 121, 38, 118, 155, 133, 192, 192, 181, 123, 150, 154, 93, 131, 143, 247, 100, 52, 166, 144, 78, 155>>,
         <<3, 14, 27, 28, 80, 148, 184, 236, 229, 126, 183, 171, 206, 92, 238, 232, 46, 53, 90, 235, 187, 48, 126, 127, 109, 95, 30, 212, 232, 59, 181, 117, 172>>>>
    @@ <<<<137, 235, 41, 178, 6, 187, 238, 102, 196, 206, 172, 15, 223, 108, 137, 248, 39, 184, 56, 98, 155, 224, 99, 85, 76, 68, 220, 192, 185, 7, 6, 44>>,
         <<2, 193, 234, 156, 5, 238, 76, 17, 12, 248, 170, 243, 100, 134, 86, 88, 68, 198, 180, 30, 39, 175, 225, 242, 76, 97, 105, 54, 87, 165, 40, 33, 134>>, 0>> :>
         <<<<205, 51, 39, 161, 90, 12, 242, 94, 244, 235, 51, 114, 146, 133, 229, 33, 250, 89, 148, 190, 214, 69, 231, 179, 173, 217, 141, 122, 192, 112, 164, 42>>,
         <<3, 148, 36, 185, 245, 123, 140, 98, 84, 231, 101, 145, 73, 252, 175, 209, 75, 142, 67, 157, 69, 68, 148, 143, 47, 191, 253, 197, 31, 9, 0, 8, 45>>>>
    @@ <<<<137, 235, 41, 178, 6, 187, 238, 102, 196, 206, 172, 15, 223, 108, 137, 248, 39, 184, 56, 98, 155, 224, 99, 85, 76, 68, 220, 192, 185, 7, 6, 44>>,
         <<2, 193, 234, 156, 5, 238, 76, 17, 12, 248, 170, 243, 100, 134, 86, 88, 68, 198, 180, 30, 39, 175, 225, 242, 76, 97, 105, 54, 87, 165, 40, 33, 134>>, 1>> :>
         <<<<210, 50, 244, 231, 208, 36, 38, 14, 190, 107, 115, 173, 105, 82, 6, 106, 118, 69, 47, 126, 29, 203, 71, 196, 222, 76, 143, 115, 103, 102, 174, 100>>,
         <<3, 1, 197, 173, 71, 102, 30, 145, 72, 103, 152, 112, 123, 230, 91, 36, 190, 148, 226, 41, 229, 119, 229, 82, 19, 47, 225, 200, 52, 147, 140, 141, 164>>>>
    @@ <<<<137, 235, 41, 178, 6, 187, 238, 102, 196, 206, 172, 15, 223, 108, 137, 248, 39, 184, 56, 98, 155, 224, 99, 85, 76, 68, 220, 192, 185, 7, 6, 44>>,
         <<2, 193, 234, 156, 5, 238, 76, 17, 12, 248, 170, 243, 100, 134, 86, 88, 68, 198, 180, 30, 39, 175, 225, 242, 76, 97, 105, 54, 87, 165, 40, 33, 134>>, 2>> :>
         <<<<184, 177, 120, 2, 167, 185, 195, 1, 146, 179, 233, 50, 238, 177, 96, 14, 202, 233, 206, 48, 224, 52, 147, 194, 80, 86, 9, 50, 47, 57, 146, 207>>,
         <<3, 197, 111, 163, 7, 9, 2, 135, 104, 106, 144, 121, 149, 136, 99, 48, 36, 158, 34, 226, 61, 169, 21, 7, 78, 195, 249, 169, 158, 127, 152, 39, 75>>>>
    @@ <<<<195, 113, 50, 245, 78, 66, 76, 57, 135, 4, 46, 252, 112, 162, 96, 255, 140, 236, 67, 64, 222, 11, 140, 199, 225, 68, 40, 197, 206, 156, 182, 99>>,
         <<2, 196, 26, 12, 50, 100, 60, 228, 83, 252, 189, 207, 219, 226, 80, 136, 134, 83, 44, 20, 227, 102, 60, 116, 187, 141, 68, 203, 89, 119, 96, 67, 25>>, 0>> :>
         <<<<194, 38, 173, 111, 213, 176, 156, 31, 254, 89, 22, 242, 5, 223, 153, 68, 106, 253, 38, 70, 199, 236, 55, 182, 225, 212, 133, 149, 186, 180, 4, 7>>,
         <<2, 151, 24, 139, 28, 208, 124, 247, 236, 28, 114, 191, 220, 181, 238, 61, 202, 102, 161, 13, 189, 223, 248, 182, 63, 77, 112, 37, 89, 52, 157, 134, 28>>>>
    @@ <<<<195, 113, 50, 245, 78, 66, 76, 57, 135, 4, 46, 252, 112, 162, 96, 255, 140, 236, 67, 64, 222, 11, 140, 199, 225, 68, 40, 197, 206, 156, 182, 99>>,
         <<2, 196, 26, 12, 50, 100, 60, 228, 83, 252, 189, 207, 219, 226, 80, 136, 134, 83, 44, 20, 227, 102, 60, 116, 187, 141, 68, 203, 89, 119, 96, 67, 25>>, 1>> :>
         <<<<120, 51, 165, 98, 217, 226, 119, 103, 209, 190, 160, 70, 54, 35, 38, 255, 19, 157, 217, 215, 97, 41, 48, 195, 1, 105, 51, 180, 128, 139, 12, 218>>,
         <<3, 131, 123, 139, 98, 100, 43, 68, 247, 33, 220, 1, 56, 66, 45, 38, 184, 228, 63, 20, 57, 133, 174, 194, 158, 156, 186, 226, 76, 106, 53, 28, 215>>>>
    @@ <<<<195, 113, 50, 245, 78, 66, 76, 57, 135, 4, 46, 252, 112, 162, 96, 255, 140, 236, 67, 64, 222, 11, 140, 199, 225, 68, 40, 197, 206, 156, 182, 99>>,
         <<2, 196, 26, 12, 50, 100, 60, 228, 83, 252, 189, 207, 219, 226, 80, 136, 134, 83, 44, 20, 227, 102, 60, 116, 187, 141, 68, 203, 89, 119, 96, 67, 25>>, 2>> :>
         <<<<195, 188, 129, 148, 101, 175, 123, 223, 186, 53, 63, 40, 234, 16, 165, 41, 127, 198, 255, 208, 176, 224, 240, 39, 111, 165, 8, 65, 142, 64, 78, 161>>,
         <<2, 208, 226, 126, 135, 123, 222, 226, 171, 215, 74, 95, 72, 69, 38, 199, 163, 188, 106, 110, 34, 188, 43, 187, 253, 108, 1, 75, 151, 88, 251, 147, 241>>>>
    @@ <<<<74, 20, 10, 45, 197, 145, 224, 130, 177, 195, 212, 52, 15, 80, 83, 167, 66, 179, 61, 201, 187, 69, 12, 171, 65, 104, 215, 83, 4, 177, 195, 180>>,
         <<2, 223, 18, 183, 3, 91, 218, 200, 227, 186, 184, 98, 163, 168, 61, 6, 234, 107, 23, 182, 117, 61, 82, 237, 236, 186, 155, 228, 111, 93, 9, 224, 118>>, 0>> :>
         <<<<68, 20, 112, 251, 94, 225, 125, 179, 222, 202, 243, 106, 3, 31, 78, 61, 186, 244, 130, 189, 254, 127, 254, 43, 133, 98, 145, 71, 248, 40, 231, 13>>,
         <<2, 0, 228, 240, 2, 12, 179, 197, 144, 251, 32, 128, 235, 220, 118, 181, 58, 72, 154, 248, 20, 44, 92, 220, 251, 78, 0, 21, 61, 194, 66, 240, 30>>>>
    @@ <<<<74, 20, 10, 45, 197, 145, 224, 130, 177, 195, 212, 52, 15, 80, 83, 167, 66, 179, 61, 201, 187, 69, 12, 171, 65, 104, 215, 83, 4, 177, 195, 180>>,
         <<2, 223, 18, 183, 3, 91, 218, 200, 227, 186, 184, 98, 163, 168, 61, 6, 234, 107, 23, 182, 117, 61, 82, 237, 236, 186, 155, 228, 111, 93, 9, 224, 118>>, 1>> :>
         <<<<185, 247, 85, 77, 165, 231, 35, 213, 152, 171, 193, 225, 106, 85, 25, 42, 9, 251, 213, 29, 153, 189, 137, 119, 53, 207, 179, 130, 202, 203, 217, 76>>,
         <<3, 97, 44, 70, 234, 9, 48, 112, 184, 94, 55, 48, 235, 175, 56, 168, 2, 149, 147, 169, 53, 38, 48, 250, 105, 65, 142, 28, 67, 113, 253, 12, 142>>>>
    @@ <<<<74, 20, 10, 45, 197, 145, 224, 130, 177, 195, 212, 52, 15, 80, 83, 167, 66, 179, 61, 201, 187, 69, 12, 171, 65, 104, 215, 83, 4, 177, 195, 180>>,
         <<2, 223, 18, 183, 3, 91, 218, 200, 227, 186, 184, 98, 163, 168, 61, 6, 234, 107, 23, 182, 117, 61, 82, 237, 236, 186, 155, 228, 111, 93, 9, 224, 118>>, 2>> :>
         <<<<95, 152, 109, 52, 138, 115, 86, 87, 132, 147, 90, 248, 32, 236, 7, 234, 184, 88, 105, 6, 254, 57, 213, 35, 253, 146, 20, 121, 107, 198, 132, 153>>,
         <<2, 1, 85, 166, 84, 24, 119, 197, 10, 177, 40, 204, 138, 61, 61, 73, 182, 25, 236, 43, 126, 198, 243, 155, 78, 79, 94, 50, 63, 183, 9, 224, 47>>>>
    @@ <<<<207, 183, 24, 131, 240, 22, 118, 245, 135, 208, 35, 204, 83, 163, 91, 199, 248, 143, 114, 75, 31, 140, 40, 146, 172, 18, 117, 172, 130, 42, 62, 221>>,
         <<2, 232, 68, 80, 130, 167, 47, 41, 183, 92, 164, 135, 72, 169, 20, 223, 96, 98, 42, 96, 156, 172, 252, 232, 237, 14, 53, 128, 69, 96, 116, 29, 41>>, 0>> :>
         <<<<74, 20, 10, 45, 197, 145, 224, 130, 177, 195, 212, 52, 15, 80, 83, 167, 66, 179, 61, 201, 187, 69, 12, 171, 65, 104, 215, 83, 4, 177, 195, 180>>,
         <<2, 223, 18, 183, 3, 91, 218, 200, 227, 186, 184, 98, 163, 168, 61, 6, 234, 107, 23, 182, 117, 61, 82, 237, 236, 186, 155, 228, 111, 93, 9, 224, 118>>>>
    @@ <<<<207, 183, 24, 131, 240, 22, 118, 245, 135, 208, 35, 204, 83, 163, 91, 199, 248, 143, 114, 75, 31, 140, 40, 146, 172, 18, 117, 172, 130, 42, 62, 221>>,
         <<2, 232, 68, 80, 130, 167, 47, 41, 183, 92, 164, 135, 72, 169, 20, 223, 96, 98, 42, 96, 156, 172, 252, 232, 237, 14, 53, 128, 69, 96, 116, 29, 41>>, 1>> :>
         <<<<78, 180, 185, 65, 134, 17, 75, 79, 200, 43, 106, 139, 64, 132, 187, 142, 49, 198, 241, 199, 174, 252, 33, 250, 122, 85, 239, 213, 119, 206, 29, 153>>,
         <<3, 40, 105, 162, 51, 201, 173, 255, 154, 153, 78, 73, 102, 229, 184, 33, 253, 91, 172, 6, 109, 166, 195, 17, 36, 136, 220, 82, 56, 59, 74, 152, 236>>>>
    @@ <<<<207, 183, 24, 131, 240, 22, 118, 245, 135, 208, 35, 204, 83, 163, 91, 199, 248, 143, 114, 75, 31, 140, 40, 146, 172, 18, 117, 172, 130, 42, 62, 221>>,
         <<2, 232, 68, 80, 130, 167, 47, 41, 183, 92, 164, 135, 72, 169, 20, 223, 96, 98, 42, 96, 156, 172, 252, 232, 237, 14, 53, 128, 69, 96, 116, 29, 41>>, 2>> :>
         <<<<142, 141, 81, 111, 231, 198, 41, 4, 79, 94, 145, 197, 40, 188, 48, 124, 113, 45, 128, 179, 215, 62, 220, 127, 223, 253, 95, 125, 90, 150, 37, 244>>,
         <<3, 93, 48, 182, 198, 109, 193, 224, 54, 196, 83, 105, 218, 130, 135, 81, 140, 247, 224, 214, 237, 30, 43, 144, 81, 113, 198, 5, 112, 143, 20, 202, 3>>>>
    @@ <<<<140, 205, 227, 141, 37, 232, 181, 30, 141, 13, 116, 159, 238, 250, 216, 155, 52, 35, 209, 200, 206, 232, 201, 141, 6, 31, 61, 3, 128, 120, 22, 5>>,
         <<2, 239, 176, 68, 233, 236, 65, 31, 115, 3, 42, 225, 176, 227, 218, 117, 214, 42, 187, 88, 201, 198, 168, 3, 254, 86, 251, 185, 33, 12, 55, 141, 141>>, 0>> :>
         <<<<59, 220, 85, 176, 50, 69, 196, 232, 206, 93, 133, 164, 104, 153, 189, 239, 130, 78, 237, 220, 118, 11, 184, 31, 197, 234, 193, 38, 6, 119, 86, 113>>,
         <<3, 225, 141, 1, 200, 157, 192, 92, 103, 85, 82, 39, 177, 23, 97, 51, 103, 93, 31, 191, 23, 203, 137, 147, 109, 66, 212, 129, 8, 253, 194, 98, 253>>>>
    @@ <<<<140, 205, 227, 141, 37, 232, 181, 30, 141, 13, 116, 159, 238, 250, 216, 155, 52, 35, 209, 200, 206, 232, 201, 141, 6, 31, 61, 3, 128, 120, 22, 5>>,
         <<2, 239, 176, 68, 233, 236, 65, 31, 115, 3, 42, 225, 176, 227, 218, 117, 214, 42, 187, 88, 201, 198, 168, 3, 254, 86, 251, 185, 33, 12, 55, 141, 141>>, 1>> :>
         <<<<111, 163, 178, 70, 131, 59, 208, 140, 144, 198, 191, 246, 203, 241, 88, 100, 34, 23, 239, 20, 52, 101, 255, 4, 212, 165, 75, 28, 160, 204, 66, 218>>,
         <<3, 95, 206, 111, 110, 55, 66, 246, 224, 132, 218, 249, 43, 250, 244, 90, 59, 139, 65, 112, 155, 110, 249, 0, 72, 19, 205, 156, 253, 102, 199, 25, 255>>>>
    @@ <<<<140, 205, 227, 141, 37, 232, 181, 30, 141, 13, 116, 159, 238, 250, 216, 155, 52, 35, 209, 200, 206, 232, 201, 141, 6, 31, 61, 3, 128, 120, 22, 5>>,
         <<2, 239, 176, 68, 233, 236, 65, 31, 115, 3, 42, 225, 176, 227, 218, 117, 214, 42, 187, 88, 201, 198, 168, 3, 254, 86, 251, 185, 33, 12, 55, 141, 141>>, 2>> :>
         <<<<64, 248, 9, 231, 255, 70, 41, 176, 21, 127, 210, 211, 226, 27, 157, 113, 85, 95, 233, 111, 157, 29, 90, 158, 71, 176, 114, 14, 110, 26, 32, 87>>,
         <<2, 97, 150, 17, 132, 111, 104, 81, 249, 48, 160, 59, 152, 87, 212, 42, 84, 227, 201, 212, 114, 26, 210, 137, 125, 30, 228, 64, 180, 229, 76, 121, 187>>>>
    @@ <<<<119, 157, 46, 188, 250, 16, 59, 84, 234, 24, 220, 20, 73, 15, 2, 234, 40, 249, 81, 100, 63, 248, 26, 219, 109, 143, 138, 67, 5, 164, 95, 185>>,
         <<2, 246, 101, 170, 97, 146, 150, 164, 196, 223, 174, 216, 146, 162, 154, 103, 104, 166, 207, 11, 8, 30, 125, 221, 203, 21, 131, 8, 205, 99, 173, 163, 171>>, 0>> :>
         <<<<195, 113, 50, 245, 78, 66, 76, 57, 135, 4, 46, 252, 112, 162, 96, 255, 140, 236, 67, 64, 222, 11, 140, 199, 225, 68, 40, 197, 206, 156, 182, 99>>,
         <<2, 196, 26, 12, 50, 100, 60, 228, 83, 252, 189, 207, 219, 226, 80, 136, 134, 83, 44, 20, 227, 102, 60, 116, 187, 141, 68, 203, 89, 119, 96, 67, 25>>>>
    @@ <<<<119, 157, 46, 188, 250, 16, 59, 84, 234, 24, 220, 20, 73, 15, 2, 234, 40, 249, 81, 100, 63, 248, 26, 219, 109, 143, 138, 67, 5, 164, 95, 185>>,
         <<2, 246, 101, 170, 97, 146, 150, 164, 196, 223, 174, 216, 146, 162, 154, 103, 104, 166, 207, 11, 8, 30, 125, 221, 203, 21, 131, 8, 205, 99, 173, 163, 171>>, 1>> :>
         <<<<38, 208, 200, 67, 163, 207, 91, 29, 12, 99, 200, 209, 208, 43, 59, 191, 55, 94, 192, 130, 57, 157, 116, 239, 24, 118, 177, 112, 43, 136, 171, 209>>,
         <<3, 84, 36, 21, 99, 79, 216, 157, 18, 19, 13, 92, 13, 109, 118, 190, 121, 40, 55, 75, 42, 149, 123, 54, 182, 43, 162, 253, 95, 247, 3, 133, 14>>>>
    @@ <<<<119, 157, 46, 188, 250, 16, 59, 84, 234, 24, 220, 20, 73, 15, 2, 234, 40, 249, 81, 100, 63, 248, 26, 219, 109, 143, 138, 67, 5, 164, 95, 185>>,
         <<2, 246, 101, 170, 97, 146, 150, 164, 196, 223, 174, 216, 146, 162, 154, 103, 104, 166, 207, 11, 8, 30, 125, 221, 203, 21, 131, 8, 205, 99, 173, 163, 171>>, 2>> :>
         <<<<137, 235, 41, 178, 6, 187, 238, 102, 196, 206, 172, 15, 223, 108, 137, 248, 39, 184, 56, 98, 155, 224, 99, 85, 76, 68, 220, 192, 185, 7, 6, 44>>,
         <<2, 193, 234, 156, 5, 238, 76, 17, 12, 248, 170, 243, 100, 134, 86, 88, 68, 198, 180, 30, 39, 175, 225, 242, 76, 97, 105, 54, 87, 165, 40, 33, 134>>>>
    @@ <<<<25, 101, 245, 208, 163, 153, 58, 91, 226, 76, 195, 53, 167, 95, 254, 69, 78, 228, 168, 135, 178, 199, 251, 59, 13, 19, 253, 191, 166, 216, 171, 94>>,
         <<3, 26, 33, 13, 239, 106, 120, 152, 227, 106, 96, 106, 147, 46, 86, 224, 44, 221, 38, 21, 56, 3, 79, 48, 146, 56, 81, 26, 81, 8, 222, 81, 112>>, 0>> :>
         <<<<45, 100, 57, 55, 217, 225, 57, 238, 232, 111, 2, 95, 133, 167, 185, 247, 234, 205, 191, 195, 209, 8, 146, 131, 10, 28, 75, 238, 14, 133, 27, 73>>,
         <<3, 133, 193, 222, 126, 21, 79, 96, 245, 167, 13, 36, 219, 107, 141, 72, 178, 34, 200, 9, 85, 1, 113, 255, 90, 14, 122, 54, 161, 50, 218, 2, 222>>>>
    @@ <<<<25, 101, 245, 208, 163, 153, 58, 91, 226, 76, 195, 53, 167, 95, 254, 69, 78, 228, 168, 135, 178, 199, 251, 59, 13, 19, 253, 191, 166, 216, 171, 94>>,
         <<3, 26, 33, 13, 239, 106, 120, 152, 227, 106, 96, 106, 147, 46, 86, 224, 44, 221, 38, 21, 56, 3, 79, 48, 146, 56, 81, 26, 81, 8, 222, 81, 112>>, 1>> :>
         <<<<182, 211, 120, 225, 2, 239, 161, 76, 51, 38, 252, 204, 114, 207, 94, 122, 139, 220, 133, 230, 252, 114, 47, 88, 151, 26, 65, 66, 27, 75, 190, 184>>,
         <<3, 169, 125, 75, 158, 187, 7, 232, 114, 44, 106, 122, 192, 174, 10, 31, 10, 117, 64, 163, 31, 145, 78, 0, 100, 231, 122, 218, 52, 144, 170, 138, 138>>>>
    @@ <<<<25, 101, 245, 208, 163, 153, 58, 91, 226, 76, 195, 53, 167, 95, 254, 69, 78, 228, 168, 135, 178, 199, 251, 59, 13, 19, 253, 191, 166, 216, 171, 94>>,
         <<3, 26, 33, 13, 239, 106, 120, 152, 227, 106, 96, 106, 147, 46, 86, 224, 44, 221, 38, 21, 56, 3, 79, 48, 146, 56, 81, 26, 81, 8, 222, 81, 112>>, 2>> :>
         <<<<209, 205, 243, 109, 32, 132, 129, 107, 99, 141, 252, 18, 20, 27, 141, 199, 59, 176, 205, 164, 147, 204, 176, 228, 159, 30, 193, 59, 233, 159, 54, 133>>,
         <<2, 7, 65, 101, 160, 158, 77, 149, 31, 116, 1, 238, 89, 19, 74, 230, 180, 122, 199, 41, 213, 92, 95, 51, 181, 5, 195, 240, 232, 71, 113, 123, 254>>>>
    @@ <<<<222, 131, 55, 92, 59, 207, 172, 191, 253, 72, 136, 132, 197, 55, 169, 111, 30, 61, 28, 50, 14, 156, 47, 167, 55, 255, 98, 10, 255, 142, 171, 250>>,
         <<3, 36, 199, 56, 0, 27, 26, 85, 202, 67, 248, 186, 206, 42, 74, 94, 188, 221, 26, 189, 169, 149, 167, 178, 96, 230, 208, 222, 30, 242, 91, 55, 87>>, 0>> :>
         <<<<19, 134, 154, 165, 120, 117, 15, 100, 101, 131, 69, 86, 1, 102, 215, 178, 160, 79, 237, 4, 225, 181, 54, 224, 57, 26, 114, 119, 187, 187, 61, 95>>,
         <<3, 244, 74, 235, 204, 191, 194, 45, 49, 60, 148, 216, 207, 223, 252, 179, 55, 108, 120, 243, 75, 239, 113, 32, 97, 201, 79, 193, 5, 14, 48, 153, 176>>>>
    @@ <<<<222, 131, 55, 92, 59, 207, 172, 191, 253, 72, 136, 132, 197, 55, 169, 111, 30, 61, 28, 50, 14, 156, 47, 167, 55, 255, 98, 10, 255, 142, 171, 250>>,
         <<3, 36, 199, 56, 0, 27, 26, 85, 202, 67, 248, 186, 206, 42, 74, 94, 188, 221, 26, 189, 169, 149, 167, 178, 96, 230, 208, 222, 30, 242, 91, 55, 87>>, 1>> :>
         <<<<207, 35, 238, 210, 231, 79, 254, 40, 77, 213, 219, 150, 209, 177, 24, 105, 131, 159, 217, 193, 8, 139, 235, 254, 178, 58, 146, 34, 81, 96, 81, 55>>,
         <<2, 216, 116, 14, 237, 137, 127, 0, 219, 129, 249, 151, 168, 37, 155, 119, 147, 243, 251, 121, 169, 252, 72, 63, 74, 114, 30, 23, 42, 52, 146, 156, 161>>>>
    @@ <<<<222, 131, 55, 92, 59, 207, 172, 191, 253, 72, 136, 132, 197, 55, 169, 111, 30, 61, 28, 50, 14, 156, 47, 167, 55, 255, 98, 10, 255, 142, 171, 250>>,
         <<3, 36, 199, 56, 0, 27, 26, 85, 202, 67, 248, 186, 206, 42, 74, 94, 188, 221, 26, 189, 169, 149, 167, 178, 96, 230, 208, 222, 30, 242, 91, 55, 87>>, 2>> :>
         <<<<237, 158, 57, 44, 116, 186, 161, 38, 15, 122, 109, 8, 65, 71, 213, 149, 209, 23, 165, 230, 191, 191, 75, 185, 126, 200, 83, 234, 95, 125, 82, 35>>,
         <<2, 165, 118, 219, 49, 195, 220, 155, 251, 23, 110, 75, 131, 139, 38, 236, 0, 150, 202, 186, 131, 144, 59, 67, 66, 61, 22, 161, 74, 253, 238, 23, 131>>>>
    @@ <<<<21, 126, 223, 63, 45, 66, 226, 156, 82, 195, 237, 243, 49, 79, 137, 122, 89, 243, 224, 185, 136, 178, 225, 18, 39, 223, 61, 141, 153, 197, 27, 160>>,
         <<3, 38, 70, 232, 33, 39, 6, 7, 155, 213, 81, 69, 129, 136, 107, 2, 252, 247, 102, 83, 122, 233, 213, 215, 144, 252, 94, 100, 44, 96, 211, 132, 62>>, 0>> :>
         <<<<38, 133, 146, 227, 197, 119, 61, 95, 206, 216, 29, 46, 190, 228, 5, 248, 118, 179, 4, 218, 18, 48, 149, 24, 5, 18, 129, 240, 0, 197, 142, 4>>,
         <<3, 240, 210, 174, 45, 86, 102, 54, 198, 211, 53, 59, 222, 26, 73, 134, 70, 142, 169, 242, 149, 72, 240, 110, 72, 246, 44, 204, 172, 230, 59, 231, 31>>>>
    @@ <<<<21, 126, 223, 63, 45, 66, 226, 156, 82, 195, 237, 243, 49, 79, 137, 122, 89, 243, 224, 185, 136, 178, 225, 18, 39, 223, 61, 141, 153, 197, 27, 160>>,
         <<3, 38, 70, 232, 33, 39, 6, 7, 155, 213, 81, 69, 129, 136, 107, 2, 252, 247, 102, 83, 122, 233, 213, 215, 144, 252, 94, 100, 44, 96, 211, 132, 62>>, 1>> :>
         <<<<254, 100, 239, 135, 150, 147, 67, 233, 156, 104, 132, 127, 140, 207, 65, 220, 15, 196, 28, 168, 20, 104, 118, 74, 35, 248, 253, 242, 55, 128, 218, 78>>,
         <<2, 38, 50, 30, 50, 215, 23, 144, 136, 118, 135, 219, 117, 179, 63, 9, 70, 214, 37, 217, 214, 26, 251, 215, 75, 41, 182, 202, 13, 98, 210, 9, 81>>>>
    @@ <<<<21, 126, 223, 63, 45, 66, 226, 156, 82, 195, 237, 243, 49, 79, 137, 122, 89, 243, 224, 185, 136, 178, 225, 18, 39, 223, 61, 141, 153, 197, 27, 160>>,
         <<3, 38, 70, 232, 33, 39, 6, 7, 155, 213, 81, 69, 129, 136, 107, 2, 252, 247, 102, 83, 122, 233, 213, 215, 144, 252, 94, 100, 44, 96, 211, 132, 62>>, 2>> :>
         <<<<218, 100, 131, 147, 163, 237, 87, 6, 199, 61, 30, 135, 248, 96, 190, 247, 78, 150, 229, 11, 35, 187, 89, 17, 182, 195, 99, 94, 193, 24, 107, 186>>,
         <<2, 151, 183, 203, 180, 61, 145, 12, 169, 147, 23, 97, 94, 237, 137, 125, 35, 161, 234, 130, 67, 228, 102, 28, 106, 131, 90, 69, 148, 68, 36, 144, 196>>>>
    @@ <<<<78, 180, 185, 65, 134, 17, 75, 79, 200, 43, 106, 139, 64, 132, 187, 142, 49, 198, 241, 199, 174, 252, 33, 250, 122, 85, 239, 213, 119, 206, 29, 153>>,
         <<3, 40, 105, 162, 51, 201, 173, 255, 154, 153, 78, 73, 102, 229, 184, 33, 253, 91, 172, 6, 109, 166, 195, 17, 36, 136, 220, 82, 56, 59, 74, 152, 236>>, 0>> :>
         <<<<90, 214, 80, 112, 70, 160, 190, 239, 76, 241, 212, 113, 78, 110, 140, 39, 97, 46, 43, 40, 178, 6, 85, 217, 45, 118, 135, 132, 242, 85, 247, 158>>,
         <<3, 107, 110, 153, 230, 142, 234, 147, 20, 129, 57, 252, 231, 80, 67, 170, 25, 90, 10, 211, 28, 24, 66, 210, 208, 69, 253, 209, 87, 193, 70, 216, 255>>>>
    @@ <<<<78, 180, 185, 65, 134, 17, 75, 79, 200, 43, 106, 139, 64, 132, 187, 142, 49, 198, 241, 199, 174, 252, 33, 250, 122, 85, 239, 213, 119, 206, 29, 153>>,
         <<3, 40, 105, 162, 51, 201, 173, 255, 154, 153, 78, 73, 102, 229, 184, 33, 253, 91, 172, 6, 109, 166, 195, 17, 36, 136, 220, 82, 56, 59, 74, 152, 236>>, 1>> :>
         <<<<176, 101, 216, 101, 141, 221, 232, 219, 244, 243, 26, 53, 131, 31, 124, 81, 183, 237, 132, 176, 220, 50, 5, 164, 174, 130, 0, 166, 48, 76, 215, 118>>,
         <<3, 4, 153, 70, 199, 151, 103, 0, 19, 106, 233, 181, 198, 224, 149, 159, 181, 71, 79, 76, 94, 245, 234, 31, 157, 128, 55, 220, 195, 141, 160, 13, 188>>>>
    @@ <<<<78, 180, 185, 65, 134, 17, 75, 79, 200, 43, 106, 139, 64, 132, 187, 142, 49, 198, 241, 199, 174, 252, 33, 250, 122, 85, 239, 213, 119, 206, 29, 153>>,
         <<3, 40, 105, 162, 51, 201, 173, 255, 154, 153, 78, 73, 102, 229, 184, 33, 253, 91, 172, 6, 109, 166, 195, 17, 36, 136, 220, 82, 56, 59, 74, 152, 236>>, 2>> :>
         <<<<151, 15, 142, 253, 129, 239, 117, 134, 47, 174, 17, 206, 165, 50, 245, 147, 134, 131, 196, 28, 113, 113, 238, 236, 15, 69, 42, 98, 12, 228, 174, 127>>,
         <<2, 199, 113, 35, 85, 140, 125, 207, 223, 248, 29, 28, 109, 163, 90, 32, 50, 8, 0, 228, 39, 167, 14, 148, 17, 158, 224, 124, 138, 4, 124, 117, 155>>>>
    @@ <<<<248, 28, 119, 35, 20, 14, 228, 58, 162, 141, 252, 123, 204, 45, 116, 165, 66, 66, 44, 214, 237, 183, 72, 172, 6, 110, 54, 43, 236, 238, 21, 43>>,
         <<3, 50, 41, 7, 132, 3, 198, 149, 243, 50, 57, 162, 73, 165, 9, 189, 140, 62, 92, 229, 145, 160, 36, 73, 30, 23, 11, 125, 127, 205, 105, 30, 130>>, 0>> :>
         <<<<164, 116, 111, 93, 41, 120, 19, 255, 177, 116, 81, 210, 18, 133, 123, 246, 252, 219, 89, 5, 201, 136, 17, 28, 209, 245, 17, 204, 228, 88, 29, 250>>,
         <<3, 182, 92, 62, 86, 253, 182, 101, 109, 11, 241, 218, 191, 162, 226, 54, 121, 31, 239, 185, 183, 151, 51, 101, 210, 62, 206, 4, 56, 202, 199, 250, 178>>>>
    @@ <<<<248, 28, 119, 35, 20, 14, 228, 58, 162, 141, 252, 123, 204, 45, 116, 165, 66, 66, 44, 214, 237, 183, 72, 172, 6, 110, 54, 43, 236, 238, 21, 43>>,
         <<3, 50, 41, 7, 132, 3, 198, 149, 243, 50, 57, 162, 73, 165, 9, 189, 140, 62, 92, 229, 145, 160, 36, 73, 30, 23, 11, 125, 127, 205, 105, 30, 130>>, 1>> :>
         <<<<167, 157, 95, 193, 102, 43, 133, 131, 228, 243, 177, 153, 58, 153, 48, 147, 47, 7, 192, 240, 2, 121, 87, 219, 120, 189, 231, 208, 158, 58, 78, 44>>,
         <<2, 240, 81, 221, 154, 158, 84, 214, 199, 248, 221, 157, 190, 196, 163, 43, 224, 2, 189, 197, 218, 82, 217, 149, 145, 11, 148, 16, 160, 197, 227, 54, 134>>>>
    @@ <<<<248, 28, 119, 35, 20, 14, 228, 58, 162, 141, 252, 123, 204, 45, 116, 165, 66, 66, 44, 214, 237, 183, 72, 172, 6, 110, 54, 43, 236, 238, 21, 43>>,
         <<3, 50, 41, 7, 132, 3, 198, 149, 243, 50, 57, 162, 73, 165, 9, 189, 140, 62, 92, 229, 145, 160, 36, 73, 30, 23, 11, 125, 127, 205, 105, 30, 130>>, 2>> :>
         <<<<120, 23, 50, 97, 8, 40, 60, 105, 165, 120, 226, 232, 156, 52, 238, 176, 89, 146, 205, 148, 223, 60, 127, 138, 11, 252, 170, 93, 30, 214, 137, 123>>,
         <<3, 98, 197, 35, 26, 11, 249, 236, 40, 28, 239, 72, 91, 121, 197, 1, 4, 39, 135, 66, 185, 170, 192, 178, 141, 6, 147, 179, 104, 40, 3, 192, 200>>>>
    @@ <<<<38, 208, 200, 67, 163, 207, 91, 29, 12, 99, 200, 209, 208, 43, 59, 191, 55, 94, 192, 130, 57, 157, 116, 239, 24, 118, 177, 112, 43, 136, 171, 209>>,
         <<3, 84, 36, 21, 99, 79, 216, 157, 18, 19, 13, 92, 13, 109, 118, 190, 121, 40, 55, 75, 42, 149, 123, 54, 182, 43, 162, 253, 95, 247, 3, 133, 14>>, 0>> :>
         <<<<251, 140, 138, 75, 226, 178, 226, 222, 47, 179, 176, 101, 86, 81, 179, 150, 112, 71, 200, 215, 51, 141, 127, 217, 81, 100, 94, 80, 111, 7, 93, 185>>,
         <<2, 140, 14, 11, 155, 149, 39, 226, 157, 0, 199, 192, 99, 66, 241, 6, 183, 103, 174, 153, 230, 63, 80, 254, 20, 81, 210, 65, 8, 109, 27, 184, 68>>>>
    @@ <<<<38, 208, 200, 67, 163, 207, 91, 29, 12, 99, 200, 209, 208, 43, 59, 191, 55, 94, 192, 130, 57, 157, 116, 239, 24, 118, 177, 112, 43, 136, 171, 209>>,
         <<3, 84, 36, 21, 99, 79, 216, 157, 18, 19, 13, 92, 13, 109, 118, 190, 121, 40, 55, 75, 42, 149, 123, 54, 182, 43, 162, 253, 95, 247, 3, 133, 14>>, 1>> :>
         <<<<53, 87, 224, 126, 226, 55, 143, 71, 241, 224, 36, 249, 178, 252, 13, 233, 194, 46, 226, 39, 14, 243, 119, 195, 73, 19, 76, 134, 112, 8, 118, 249>>,
         <<2, 111, 253, 16, 186, 153, 18, 16, 14, 229, 130, 231, 143, 199, 50, 107, 247, 228, 5, 33, 84, 176, 76, 205, 67, 26, 88, 181, 18, 84, 119, 168, 123>>>>
    @@ <<<<38, 208, 200, 67, 163, 207, 91, 29, 12, 99, 200, 209, 208, 43, 59, 191, 55, 94, 192, 130, 57, 157, 116, 239, 24, 118, 177, 112, 43, 136, 171, 209>>,
         <<3, 84, 36, 21, 99, 79, 216, 157, 18, 19, 13, 92, 13, 109, 118, 190, 121, 40, 55, 75, 42, 149, 123, 54, 182, 43, 162, 253, 95, 247, 3, 133, 14>>, 2>> :>
         <<<<86, 20, 96, 229, 205, 68, 219, 146, 30, 184, 148, 147, 190, 134, 166, 85, 195, 198, 0, 206, 181, 15, 238, 232, 61, 85, 14, 244, 212, 14, 220, 49>>,
         <<2, 67, 191, 230, 34, 54, 18, 241, 123, 161, 97, 158, 76, 26, 36, 159, 220, 163, 206, 92, 179, 218, 164, 238, 110, 105, 26, 44, 56, 163, 17, 218, 170>>>>
    @@ <<<<4, 70, 107, 156, 200, 225, 97, 233, 102, 64, 156, 165, 41, 134, 197, 132, 240, 126, 157, 200, 31, 115, 93, 182, 131, 195, 255, 110, 199, 177, 80, 63>>,
         <<3, 87, 191, 225, 227, 65, 208, 28, 105, 254, 86, 84, 48, 153, 86, 203, 234, 81, 104, 34, 251, 168, 166, 1, 116, 58, 1, 42, 120, 150, 238, 141, 194>>, 0>> :>
         <<<<194, 101, 231, 49, 233, 56, 132, 216, 78, 37, 222, 242, 109, 75, 178, 227, 26, 212, 23, 172, 228, 237, 123, 246, 136, 153, 111, 239, 150, 189, 168, 19>>,
         <<2, 67, 128, 43, 254, 226, 197, 129, 1, 213, 218, 129, 2, 143, 52, 128, 169, 35, 174, 90, 247, 113, 228, 5, 94, 222, 21, 68, 130, 233, 109, 161, 205>>>>
    @@ <<<<4, 70, 107, 156, 200, 225, 97, 233, 102, 64, 156, 165, 41, 134, 197, 132, 240, 126, 157, 200, 31, 115, 93, 182, 131, 195, 255, 110, 199, 177, 80, 63>>,
         <<3, 87, 191, 225, 227, 65, 208, 28, 105, 254, 86, 84, 48, 153, 86, 203, 234, 81, 104, 34, 251, 168, 166, 1, 116, 58, 1, 42, 120, 150, 238, 141, 194>>, 1>> :>
         <<<<131, 233, 227, 8, 200, 7, 161, 100, 154, 57, 18, 228, 35, 237, 13, 182, 64, 20, 253, 242, 70, 99, 209, 85, 205, 60, 34, 81, 200, 84, 27, 133>>,
         <<2, 38, 255, 245, 84, 232, 170, 54, 57, 6, 123, 207, 254, 214, 59, 135, 240, 184, 208, 123, 194, 210, 130, 89, 33, 187, 199, 8, 110, 241, 97, 14, 106>>>>
    @@ <<<<4, 70, 107, 156, 200, 225, 97, 233, 102, 64, 156, 165, 41, 134, 197, 132, 240, 126, 157, 200, 31, 115, 93, 182, 131, 195, 255, 110, 199, 177, 80, 63>>,
         <<3, 87, 191, 225, 227, 65, 208, 28, 105, 254, 86, 84, 48, 153, 86, 203, 234, 81, 104, 34, 251, 168, 166, 1, 116, 58, 1, 42, 120, 150, 238, 141, 194>>, 2>> :>
         <<<<207, 183, 24, 131, 240, 22, 118, 245, 135, 208, 35, 204, 83, 163, 91, 199, 248, 143, 114, 75, 31, 140, 40, 146, 172, 18, 117, 172, 130, 42, 62, 221>>,
         <<2, 232, 68, 80, 130, 167, 47, 41, 183, 92, 164, 135, 72, 169, 20, 223, 96, 98, 42, 96, 156, 172, 252, 232, 237, 14, 53, 128, 69, 96, 116, 29, 41>>>>
    @@ <<<<142, 141, 81, 111, 231, 198, 41, 4, 79, 94, 145, 197, 40, 188, 48, 124, 113, 45, 128, 179, 215, 62, 220, 127, 223, 253, 95, 125, 90, 150, 37, 244>>,
         <<3, 93, 48, 182, 198, 109, 193, 224, 54, 196, 83, 105, 218, 130, 135, 81, 140, 247, 224, 214, 237, 30, 43, 144, 81, 113, 198, 5, 112, 143, 20, 202, 3>>, 0>> :>
         <<<<4, 26, 127, 117, 86, 119, 213, 16, 150, 211, 86, 55, 107, 55, 60, 192, 123, 51, 120, 152, 4, 227, 52, 168, 61, 164, 139, 108, 175, 103, 231, 142>>,
         <<2, 147, 109, 21, 38, 119, 35, 212, 229, 104, 156, 31, 59, 69, 168, 38, 85, 100, 254, 252, 197, 123, 72, 205, 250, 59, 40, 67, 220, 146, 122, 254, 59>>>>
    @@ <<<<142, 141, 81, 111, 231, 198, 41, 4, 79, 94, 145, 197, 40, 188, 48, 124, 113, 45, 128, 179, 215, 62, 220, 127, 223, 253, 95, 125, 90, 150, 37, 244>>,
         <<3, 93, 48, 182, 198, 109, 193, 224, 54, 196, 83, 105, 218, 130, 135, 81, 140, 247, 224, 214, 237, 30, 43, 144, 81, 113, 198, 5, 112, 143, 20, 202, 3>>, 1>> :>
         <<<<101, 204, 230, 122, 71, 10, 38, 58, 183, 254, 237, 175, 134, 39, 171, 1, 239, 129, 105, 229, 136, 168, 202, 158, 254, 81, 167, 56, 7, 181, 202, 129>>,
         <<3, 147, 195, 110, 26, 3, 246, 2, 254, 48, 59, 167, 111, 138, 131, 217, 187, 238, 226, 132, 239, 150, 204, 181, 28, 88, 6, 53, 35, 224, 170, 205, 4>>>>
    @@ <<<<142, 141, 81, 111, 231, 198, 41, 4, 79, 94, 145, 197, 40, 188, 48, 124, 113, 45, 128, 179, 215, 62, 220, 127, 223, 253, 95, 125, 90, 150, 37, 244>>,
         <<3, 93, 48, 182, 198, 109, 193, 224, 54, 196, 83, 105, 218, 130, 135, 81, 140, 247, 224, 214, 237, 30, 43, 144, 81, 113, 198, 5, 112, 143, 20, 202, 3>>, 2>> :>
         <<<<237, 88, 76, 86, 115, 125, 17, 203, 138, 124, 246, 41, 171, 74, 155, 32, 241, 68, 192, 94, 101, 195, 169, 129, 11, 237, 230, 156, 132, 75, 201, 116>>,
         <<2, 50, 8, 221, 128, 98, 45, 109, 74, 255, 12, 4, 67, 52, 226, 233, 135, 9, 170, 225, 114, 133, 91, 64, 188, 171, 123, 161, 86, 56, 228, 168, 122>>>>
    @@ <<<<90, 244, 91, 31, 48, 132, 106, 192, 193, 237, 151, 194, 219, 56, 123, 163, 252, 219, 96, 236, 63, 79, 205, 38, 210, 185, 134, 145, 70, 26, 69, 255>>,
         <<3, 111, 60, 227, 229, 239, 44, 223, 189, 219, 14, 144, 36, 98, 233, 181, 176, 46, 10, 140, 250, 200, 217, 191, 139, 233, 7, 143, 38, 98, 230, 120, 221>>, 0>> :>
         <<<<11, 87, 177, 42, 43, 190, 30, 25, 38, 159, 231, 34, 13, 129, 70, 43, 102, 209, 126, 65, 78, 69, 96, 55, 165, 147, 5, 121, 241, 49, 141, 3>>,
         <<2, 5, 158, 8, 17, 43, 152, 209, 192, 217, 95, 254, 56, 17, 146, 129, 230, 76, 216, 132, 81, 192, 227, 198, 14, 51, 230, 70, 202, 5, 125, 5, 228>>>>
    @@ <<<<90, 244, 91, 31, 48, 132, 106, 192, 193, 237, 151, 194, 219, 56, 123, 163, 252, 219, 96, 236, 63, 79, 205, 38, 210, 185, 134, 145, 70, 26, 69, 255>>,
         <<3, 111, 60, 227, 229, 239, 44, 223, 189, 219, 14, 144, 36, 98, 233, 181, 176, 46, 10, 140, 250, 200, 217, 191, 139, 233, 7, 143, 38, 98, 230, 120, 221>>, 1>> :>
         <<<<248, 28, 119, 35, 20, 14, 228, 58, 162, 141, 252, 123, 204, 45, 116, 165, 66, 66, 44, 214, 237, 183, 72, 172, 6, 110, 54, 43, 236, 238, 21, 43>>,
         <<3, 50, 41, 7, 132, 3, 198, 149, 243, 50, 57, 162, 73, 165, 9, 189, 140, 62, 92, 229, 145, 160, 36, 73, 30, 23, 11, 125, 127, 205, 105, 30, 130>>>>
    @@ <<<<90, 244, 91, 31, 48, 132, 106, 192, 193, 237, 151, 194, 219, 56, 123, 163, 252, 219, 96, 236, 63, 79, 205, 38, 210, 185, 134, 145, 70, 26, 69, 255>>,
         <<3, 111, 60, 227, 229, 239, 44, 223, 189, 219, 14, 144, 36, 98, 233, 181, 176, 46, 10, 140, 250, 200, 217, 191, 139, 233, 7, 143, 38, 98, 230, 120, 221>>, 2>> :>
         <<<<233, 37, 164, 132, 71, 69, 66, 166, 106, 117, 5, 31, 143, 177, 73, 0, 162, 255, 106, 113, 84, 64, 242, 126, 215, 59, 232, 234, 24, 195, 213, 228>>,
         <<2, 120, 255, 203, 45, 175, 236, 47, 197, 25, 132, 224, 242, 220, 223, 75, 72, 158, 190, 117, 225, 163, 73, 54, 47, 35, 128, 1, 5, 102, 112, 225, 110>>>>
    @@ <<<<112, 8, 85, 248, 15, 60, 135, 198, 222, 154, 212, 85, 3, 135, 51, 230, 53, 203, 86, 25, 57, 78, 153, 200, 29, 141, 137, 156, 80, 110, 163, 18>>,
         <<3, 115, 45, 201, 229, 7, 254, 26, 68, 175, 203, 242, 240, 113, 192, 77, 59, 102, 204, 176, 32, 242, 212, 255, 156, 138, 163, 219, 245, 44, 198, 198, 20>>, 0>> :>
         <<<<136, 66, 95, 23, 236, 230, 0, 45, 79, 125, 184, 60, 209, 148, 185, 203, 173, 221, 58, 64, 62, 125, 252, 113, 99, 243, 221, 108, 86, 189, 43, 90>>,
         <<2, 224, 46, 100, 152, 122, 137, 194, 154, 26, 192, 242, 7, 20, 54, 50, 113, 130, 141, 75, 24, 115, 142, 237, 217, 233, 53, 34, 141, 44, 83, 63, 215>>>>
    @@ <<<<112, 8, 85, 248, 15, 60, 135, 198, 222, 154, 212, 85, 3, 135, 51, 230, 53, 203, 86, 25, 57, 78, 153, 200, 29, 141, 137, 156, 80, 110, 163, 18>>,
         <<3, 115, 45, 201, 229, 7, 254, 26, 68, 175, 203, 242, 240, 113, 192, 77, 59, 102, 204, 176, 32, 242, 212, 255, 156, 138, 163, 219, 245, 44, 198, 198, 20>>, 1>> :>
         <<<<99, 173, 186, 47, 32, 123, 184, 35, 147, 229, 76, 47, 97, 67, 30, 153, 221, 165, 59, 181, 218, 50, 98, 146, 163, 193, 214, 84, 78, 86, 105, 208>>,
         <<2, 117, 113, 106, 57, 225, 209, 234, 68, 55, 193, 154, 161, 163, 145, 138, 70, 38, 190, 241, 43, 78, 21, 112, 234, 18, 132, 221, 122, 235, 159, 183, 223>>>>
    @@ <<<<112, 8, 85, 248, 15, 60, 135, 198, 222, 154, 212, 85, 3, 135, 51, 230, 53, 203, 86, 25, 57, 78, 153, 200, 29, 141, 137, 156, 80, 110, 163, 18>>,
         <<3, 115, 45, 201, 229, 7, 254, 26, 68, 175, 203, 242, 240, 113, 192, 77, 59, 102, 204, 176, 32, 242, 212, 255, 156, 138, 163, 219, 245, 44, 198, 198, 20>>, 2>> :>
         <<<<199, 88, 26, 135, 47, 198, 152, 96, 252, 95, 215, 213, 205, 221, 72, 35, 147, 11, 179, 185, 25, 47, 100, 211, 24, 60, 112, 235, 103, 144, 121, 249>>,
         <<3, 157, 55, 32, 6, 20, 40, 156, 110, 169, 225, 177, 28, 238, 45, 215, 82, 92, 49, 17, 172, 92, 140, 50, 68, 215, 197, 159, 216, 203, 103, 30, 234>>>>
    @@ <<<<208, 183, 42, 240, 189, 65, 124, 55, 174, 6, 118, 92, 134, 28, 185, 124, 117, 171, 192, 159, 24, 247, 59, 243, 253, 85, 242, 52, 189, 57, 163, 196>>,
         <<3, 144, 55, 83, 85, 167, 145, 187, 39, 241, 247, 144, 182, 127, 194, 0, 128, 209, 208, 25, 144, 27, 192, 27, 112, 219, 187, 244, 86, 80, 245, 158, 215>>, 0>> :>
         <<<<181, 136, 74, 142, 13, 223, 74, 101, 196, 178, 95, 134, 207, 87, 134, 203, 157, 240, 244, 149, 52, 8, 99, 204, 202, 116, 1, 64, 80, 230, 145, 105>>,
         <<3, 158, 156, 28, 187, 58, 52, 247, 160, 42, 161, 241, 119, 126, 157, 2, 208, 251, 216, 190, 13, 67, 19, 245, 92, 238, 137, 216, 9, 139, 207, 210, 162>>>>
    @@ <<<<208, 183, 42, 240, 189, 65, 124, 55, 174, 6, 118, 92, 134, 28, 185, 124, 117, 171, 192, 159, 24, 247, 59, 243, 253, 85, 242, 52, 189, 57, 163, 196>>,
         <<3, 144, 55, 83, 85, 167, 145, 187, 39, 241, 247, 144, 182, 127, 194, 0, 128, 209, 208, 25, 144, 27, 192, 27, 112, 219, 187, 244, 86, 80, 245, 158, 215>>, 1>> :>
         <<<<113, 211, 83, 243, 243, 233, 139, 129, 166, 119, 109, 3, 94, 138, 121, 249, 60, 190, 217, 48, 144, 101, 30, 60, 225, 237, 255, 78, 23, 228, 66, 221>>,
         <<3, 60, 184, 180, 131, 12, 100, 103, 1, 60, 211, 202, 143, 107, 239, 242, 146, 188, 247, 1, 59, 232, 179, 249, 254, 103, 0, 132, 13, 239, 233, 253, 52>>>>
    @@ <<<<208, 183, 42, 240, 189, 65, 124, 55, 174, 6, 118, 92, 134, 28, 185, 124, 117, 171, 192, 159, 24, 247, 59, 243, 253, 85, 242, 52, 189, 57, 163, 196>>,
         <<3, 144, 55, 83, 85, 167, 145, 187, 39, 241, 247, 144, 182, 127, 194, 0, 128, 209, 208, 25, 144, 27, 192, 27, 112, 219, 187, 244, 86, 80, 245, 158, 215>>, 2>> :>
         <<<<129, 147, 233, 67, 154, 98, 209, 91, 117, 8, 144, 189, 201, 88, 190, 133, 88, 49, 168, 179, 179, 86, 138, 122, 170, 102, 113, 149, 228, 3, 84, 165>>,
         <<3, 188, 242, 59, 232, 167, 76, 50, 103, 27, 93, 143, 54, 21, 13, 136, 125, 165, 236, 32, 114, 216, 74, 96, 234, 219, 40, 73, 62, 233, 159, 63, 180>>>>
    @@ <<<<23, 248, 91, 234, 129, 25, 1, 217, 155, 205, 36, 224, 100, 108, 153, 185, 141, 56, 124, 47, 90, 85, 85, 46, 188, 165, 209, 218, 126, 239, 240, 251>>,
         <<3, 158, 194, 163, 189, 222, 74, 223, 171, 189, 170, 126, 97, 55, 124, 67, 72, 236, 7, 60, 249, 48, 123, 70, 34, 102, 20, 10, 136, 63, 75, 59, 235>>, 0>> :>
         <<<<128, 234, 210, 65, 33, 179, 42, 124, 50, 230, 182, 124, 136, 4, 59, 69, 169, 15, 117, 160, 1, 208, 56, 60, 110, 129, 254, 7, 181, 167, 152, 186>>,
         <<2, 159, 58, 72, 211, 41, 131, 59, 148, 198, 237, 255, 217, 187, 135, 99, 53, 39, 74, 130, 117, 243, 67, 88, 56, 80, 108, 253, 70, 130, 36, 132, 12>>>>
    @@ <<<<23, 248, 91, 234, 129, 25, 1, 217, 155, 205, 36, 224, 100, 108, 153, 185, 141, 56, 124, 47, 90, 85, 85, 46, 188, 165, 209, 218, 126, 239, 240, 251>>,
         <<3, 158, 194, 163, 189, 222, 74, 223, 171, 189, 170, 126, 97, 55, 124, 67, 72, 236, 7, 60, 249, 48, 123, 70, 34, 102, 20, 10, 136, 63, 75, 59, 235>>, 1>> :>
         <<<<12, 172, 26, 166, 55, 70, 184, 33, 16, 19, 13, 108, 15, 187, 147, 95, 232, 129, 207, 219, 226, 220, 76, 72, 171, 165, 73, 134, 96, 170, 240, 198>>,
         <<3, 229, 253, 44, 166, 199, 120, 150, 170, 10, 231, 98, 165, 111, 104, 40, 145, 148, 140, 82, 164, 129, 168, 137, 195, 133, 43, 53, 165, 61, 126, 186, 126>>>>
    @@ <<<<23, 248, 91, 234, 129, 25, 1, 217, 155, 205, 36, 224, 100, 108, 153, 185, 141, 56, 124, 47, 90, 85, 85, 46, 188, 165, 209, 218, 126, 239, 240, 251>>,
         <<3, 158, 194, 163, 189, 222, 74, 223, 171, 189, 170, 126, 97, 55, 124, 67, 72, 236, 7, 60, 249, 48, 123, 70, 34, 102, 20, 10, 136, 63, 75, 59, 235>>, 2>> :>
         <<<<13, 114, 151, 216, 19, 117, 141, 23, 29, 204, 215, 174, 194, 55, 147, 206, 14, 216, 199, 246, 24, 247, 167, 139, 193, 235, 254, 138, 216, 64, 203, 133>>,
         <<2, 4, 48, 227, 172, 19, 229, 75, 168, 164, 109, 120, 76, 254, 171, 11, 83, 103, 89, 72, 13, 244, 255, 220, 229, 248, 127, 180, 99, 21, 23, 185, 172>>>>
    @@ <<<<245, 56, 123, 203, 226, 91, 88, 29, 12, 142, 219, 97, 66, 8, 222, 167, 150, 159, 239, 31, 167, 227, 159, 91, 135, 52, 114, 69, 244, 105, 242, 156>>,
         <<3, 192, 18, 201, 23, 114, 175, 29, 86, 37, 97, 74, 194, 139, 80, 7, 135, 175, 206, 14, 129, 8, 149, 65, 132, 87, 117, 40, 25, 101, 14, 91, 103>>, 0>> :>
         <<<<203, 217, 46, 111, 183, 62, 80, 19, 16, 39, 136, 75, 45, 32, 72, 45, 16, 136, 196, 151, 171, 175, 187, 65, 144, 171, 114, 21, 159, 49, 154, 71>>,
         <<2, 134, 240, 27, 11, 64, 137, 3, 202, 74, 62, 97, 1, 219, 8, 68, 114, 96, 135, 87, 100, 2, 129, 203, 103, 75, 205, 80, 128, 197, 76, 34, 2>>>>
    @@ <<<<245, 56, 123, 203, 226, 91, 88, 29, 12, 142, 219, 97, 66, 8, 222, 167, 150, 159, 239, 31, 167, 227, 159, 91, 135, 52, 114, 69, 244, 105, 242, 156>>,
         <<3, 192, 18, 201, 23, 114, 175, 29, 86, 37, 97, 74, 194, 139, 80, 7, 135, 175, 206, 14, 129, 8, 149, 65, 132, 87, 117, 40, 25, 101, 14, 91, 103>>, 1>> :>
         <<<<56, 117, 38, 171, 233, 244, 53, 156, 74, 71, 7, 102, 49, 143, 49, 107, 64, 235, 168, 111, 42, 172, 25, 209, 160, 30, 212, 216, 153, 119, 81, 192>>,
         <<3, 155, 73, 213, 27, 191, 148, 37, 117, 175, 236, 51, 251, 34, 220, 203, 76, 3, 82, 46, 21, 25, 113, 85, 168, 166, 5, 16, 230, 29, 128, 175, 26>>>>
    @@ <<<<245, 56, 123, 203, 226, 91, 88, 29, 12, 142, 219, 97, 66, 8, 222, 167, 150, 159, 239, 31, 167, 227, 159, 91, 135, 52, 114, 69, 244, 105, 242, 156>>,
         <<3, 192, 18, 201, 23, 114, 175, 29, 86, 37, 97, 74, 194, 139, 80, 7, 135, 175, 206, 14, 129, 8, 149, 65, 132, 87, 117, 40, 25, 101, 14, 91, 103>>, 2>> :>
         <<<<1, 251, 225, 108, 81, 214, 6, 184, 217, 124, 149, 19, 106, 13, 51, 88, 47, 100, 221, 238, 31, 27, 58, 245, 255, 153, 137, 200, 232, 224, 171, 254>>,
         <<3, 186, 173, 118, 91, 248, 62, 66, 184, 204, 88, 160, 161, 166, 108, 32, 156, 215, 192, 166, 206, 40, 240, 58, 49, 34, 73, 47, 56, 211, 144, 103, 182>>>>
    @@ <<<<65, 137, 177, 150, 37, 124, 125, 138, 22, 137, 180, 185, 117, 167, 98, 69, 58, 168, 227, 162, 2, 230, 112, 34, 120, 63, 157, 122, 214, 81, 6, 223>>,
         <<3, 199, 11, 14, 137, 161, 107, 67, 239, 103, 179, 48, 102, 170, 121, 209, 111, 58, 144, 102, 187, 88, 223, 249, 35, 228, 187, 192, 234, 98, 18, 250, 210>>, 0>> :>
         <<<<84, 63, 155, 237, 38, 20, 186, 65, 150, 175, 66, 76, 110, 156, 225, 75, 225, 253, 235, 64, 196, 177, 107, 183, 117, 128, 19, 192, 122, 76, 36, 148>>,
         <<2, 51, 236, 194, 118, 44, 76, 196, 125, 112, 21, 245, 60, 91, 58, 111, 231, 161, 151, 215, 109, 46, 58, 138, 234, 90, 211, 233, 40, 230, 96, 137, 160>>>>
    @@ <<<<65, 137, 177, 150, 37, 124, 125, 138, 22, 137, 180, 185, 117, 167, 98, 69, 58, 168, 227, 162, 2, 230, 112, 34, 120, 63, 157, 122, 214, 81, 6, 223>>,
         <<3, 199, 11, 14, 137, 161, 107, 67, 239, 103, 179, 48, 102, 170, 121, 209, 111, 58, 144, 102, 187, 88, 223, 249, 35, 228, 187, 192, 234, 98, 18, 250, 210>>, 1>> :>
         <<<<222, 131, 55, 92, 59, 207, 172, 191, 253, 72, 136, 132, 197, 55, 169, 111, 30, 61, 28, 50, 14, 156, 47, 167, 55, 255, 98, 10, 255, 142, 171, 250>>,
         <<3, 36, 199, 56, 0, 27, 26, 85, 202, 67, 248, 186, 206, 42, 74, 94, 188, 221, 26, 189, 169, 149, 167, 178, 96, 230, 208, 222, 30, 242, 91, 55, 87>>>>
    @@ <<<<65, 137, 177, 150, 37, 124, 125, 138, 22, 137, 180, 185, 117, 167, 98, 69, 58, 168, 227, 162, 2, 230, 112, 34, 120, 63, 157, 122, 214, 81, 6, 223>>,
         <<3, 199, 11, 14, 137, 161, 107, 67, 239, 103, 179, 48, 102, 170, 121, 209, 111, 58, 144, 102, 187, 88, 223, 249, 35, 228, 187, 192, 234, 98, 18, 250, 210>>, 2>> :>
         <<<<35, 62, 69, 255, 50, 158, 117, 89, 251, 113, 57, 218, 13, 171, 27, 238, 44, 85, 66, 155, 162, 68, 248, 4, 49, 77, 52, 72, 88, 90, 153, 246>>,
         <<3, 225, 189, 23, 192, 112, 219, 116, 38, 153, 184, 205, 76, 172, 116, 108, 130, 52, 243, 224, 131, 81, 71, 152, 239, 179, 210, 225, 87, 25, 166, 35, 146>>>>
    @@ <<<<175, 174, 136, 43, 11, 89, 0, 121, 127, 126, 187, 189, 139, 42, 137, 84, 230, 119, 55, 39, 131, 201, 75, 182, 154, 142, 247, 151, 98, 214, 160, 204>>,
         <<3, 204, 90, 237, 216, 205, 196, 47, 242, 160, 139, 65, 29, 247, 33, 43, 193, 17, 156, 63, 142, 59, 217, 182, 201, 141, 1, 155, 2, 100, 240, 219, 133>>, 0>> :>
         <<<<168, 129, 161, 62, 64, 48, 128, 112, 216, 4, 182, 30, 17, 236, 202, 172, 198, 159, 244, 223, 42, 220, 3, 254, 81, 5, 63, 40, 199, 133, 86, 14>>,
         <<2, 82, 188, 218, 3, 13, 176, 221, 169, 88, 154, 58, 200, 213, 18, 91, 106, 71, 168, 64, 254, 201, 196, 6, 125, 74, 92, 183, 149, 38, 65, 173, 225>>>>
    @@ <<<<175, 174, 136, 43, 11, 89, 0, 121, 127, 126, 187, 189, 139, 42, 137, 84, 230, 119, 55, 39, 131, 201, 75, 182, 154, 142, 247, 151, 98, 214, 160, 204>>,
         <<3, 204, 90, 237, 216, 205, 196, 47, 242, 160, 139, 65, 29, 247, 33, 43, 193, 17, 156, 63, 142, 59, 217, 182, 201, 141, 1, 155, 2, 100, 240, 219, 133>>, 1>> :>
         <<<<125, 105, 66, 6, 222, 233, 40, 118, 161, 219, 75, 118, 239, 74, 141, 219, 130, 0, 224, 168, 220, 198, 79, 214, 132, 201, 173, 197, 80, 8, 101, 70>>,
         <<3, 109, 219, 141, 147, 180, 247, 244, 64, 72, 200, 85, 122, 85, 29, 19, 115, 64, 119, 19, 215, 35, 110, 60, 249, 183, 156, 237, 218, 16, 131, 106, 50>>>>
    @@ <<<<175, 174, 136, 43, 11, 89, 0, 121, 127, 126, 187, 189, 139, 42, 137, 84, 230, 119, 55, 39, 131, 201, 75, 182, 154, 142, 247, 151, 98, 214, 160, 204>>,
         <<3, 204, 90, 237, 216, 205, 196, 47, 242, 160, 139, 65, 29, 247, 33, 43, 193, 17, 156, 63, 142, 59, 217, 182, 201, 141, 1, 155, 2, 100, 240, 219, 133>>, 2>> :>
         <<<<180, 51, 84, 175, 161, 124, 226, 29, 10, 237, 253, 179, 192, 70, 59, 49, 253, 66, 181, 121, 188, 1, 193, 1, 169, 175, 245, 217, 75, 55, 169, 149>>,
         <<3, 96, 107, 146, 122, 9, 13, 110, 30, 46, 88, 115, 42, 38, 35, 229, 85, 191, 8, 37, 253, 131, 215, 53, 113, 13, 9, 7, 6, 71, 1, 90, 12>>>>
    @@ <<<<35, 62, 69, 255, 50, 158, 117, 89, 251, 113, 57, 218, 13, 171, 27, 238, 44, 85, 66, 155, 162, 68, 248, 4, 49, 77, 52, 72, 88, 90, 153, 246>>,
         <<3, 225, 189, 23, 192, 112, 219, 116, 38, 153, 184, 205, 76, 172, 116, 108, 130, 52, 243, 224, 131, 81, 71, 152, 239, 179, 210, 225, 87, 25, 166, 35, 146>>, 0>> :>
         <<<<116, 218, 82, 206, 86, 136, 150, 91, 106, 151, 194, 99, 95, 231, 112, 75, 226, 97, 80, 8, 31, 29, 71, 210, 92, 45, 105, 71, 139, 130, 137, 227>>,
         <<3, 104, 11, 184, 25, 175, 23, 184, 183, 141, 106, 130, 53, 48, 49, 240, 132, 120, 165, 119, 57, 199, 206, 17, 75, 134, 119, 122, 177, 29, 252, 186, 218>>>>
    @@ <<<<35, 62, 69, 255, 50, 158, 117, 89, 251, 113, 57, 218, 13, 171, 27, 238, 44, 85, 66, 155, 162, 68, 248, 4, 49, 77, 52, 72, 88, 90, 153, 246>>,
         <<3, 225, 189, 23, 192, 112, 219, 116, 38, 153, 184, 205, 76, 172, 116, 108, 130, 52, 243, 224, 131, 81, 71, 152, 239, 179, 210, 225, 87, 25, 166, 35, 146>>, 1>> :>
         <<<<1, 53, 51, 95, 62, 247, 29, 35, 115, 156, 157, 163, 162, 209, 58, 198, 88, 79, 131, 53, 0, 125, 188, 120, 155, 70, 227, 104, 44, 221, 110, 60>>,
         <<3, 147, 94, 16, 31, 68, 77, 161, 44, 252, 255, 214, 220, 219, 166, 152, 50, 220, 57, 17, 27, 246, 20, 38, 53, 56, 154, 22, 169, 204, 72, 13, 99>>>>
    @@ <<<<35, 62, 69, 255, 50, 158, 117, 89, 251, 113, 57, 218, 13, 171, 27, 238, 44, 85, 66, 155, 162, 68, 248, 4, 49, 77, 52, 72, 88, 90, 153, 246>>,
         <<3, 225, 189, 23, 192, 112, 219, 116, 38, 153, 184, 205, 76, 172, 116, 108, 130, 52, 243, 224, 131, 81, 71, 152, 239, 179, 210, 225, 87, 25, 166, 35, 146>>, 2>> :>
         <<<<138, 97, 171, 236, 72, 121, 61, 202, 158, 74, 189, 133, 56, 245, 168, 241, 177, 191, 216, 199, 253, 166, 145, 158, 98, 17, 47, 37, 65, 164, 82, 46>>,
         <<2, 62, 53, 86, 238, 174, 118, 74, 170, 56, 196, 248, 255, 246, 229, 75, 67, 51, 170, 209, 103, 63, 193, 250, 94, 192, 39, 154, 7, 66, 112, 0, 78>>>>
    @@ <<<<77, 92, 138, 126, 230, 74, 12, 133, 20, 199, 214, 187, 45, 128, 216, 131, 87, 78, 227, 9, 237, 185, 105, 198, 178, 58, 29, 129, 69, 176, 1, 136>>,
         <<3, 227, 244, 140, 109, 253, 77, 66, 184, 75, 192, 63, 17, 98, 88, 230, 119, 229, 123, 199, 235, 73, 170, 182, 151, 204, 131, 38, 16, 138, 197, 119, 92>>, 0>> :>
         <<<<65, 137, 177, 150, 37, 124, 125, 138, 22, 137, 180, 185, 117, 167, 98, 69, 58, 168, 227, 162, 2, 230, 112, 34, 120, 63, 157, 122, 214, 81, 6, 223>>,
         <<3, 199, 11, 14, 137, 161, 107, 67, 239, 103, 179, 48, 102, 170, 121, 209, 111, 58, 144, 102, 187, 88, 223, 249, 35, 228, 187, 192, 234, 98, 18, 250, 210>>>>
    @@ <<<<77, 92, 138, 126, 230, 74, 12, 133, 20, 199, 214, 187, 45, 128, 216, 131, 87, 78, 227, 9, 237, 185, 105, 198, 178, 58, 29, 129, 69, 176, 1, 136>>,
         <<3, 227, 244, 140, 109, 253, 77, 66, 184, 75, 192, 63, 17, 98, 88, 230, 119, 229, 123, 199, 235, 73, 170, 182, 151, 204, 131, 38, 16, 138, 197, 119, 92>>, 1>> :>
         <<<<119, 157, 46, 188, 250, 16, 59, 84, 234, 24, 220, 20, 73, 15, 2, 234, 40, 249, 81, 100, 63, 248, 26, 219, 109, 143, 138, 67, 5, 164, 95, 185>>,
         <<2, 246, 101, 170, 97, 146, 150, 164, 196, 223, 174, 216, 146, 162, 154, 103, 104, 166, 207, 11, 8, 30, 125, 221, 203, 21, 131, 8, 205, 99, 173, 163, 171>>>>
    @@ <<<<77, 92, 138, 126, 230, 74, 12, 133, 20, 199, 214, 187, 45, 128, 216, 131, 87, 78, 227, 9, 237, 185, 105, 198, 178, 58, 29, 129, 69, 176, 1, 136>>,
         <<3, 227, 244, 140, 109, 253, 77, 66, 184, 75, 192, 63, 17, 98, 88, 230, 119, 229, 123, 199, 235, 73, 170, 182, 151, 204, 131, 38, 16, 138, 197, 119, 92>>, 2>> :>
         <<<<101, 124, 42, 40, 126, 102, 88, 80, 115, 222, 51, 15, 121, 125, 65, 241, 76, 134, 39, 29, 215, 250, 26, 174, 63, 89, 168, 24, 131, 96, 220, 250>>,
         <<2, 23, 55, 136, 174, 38, 63, 144, 201, 46, 156, 212, 9, 125, 124, 217, 195, 123, 110, 20, 227, 136, 30, 121, 9, 77, 226, 154, 166, 193, 164, 244, 31>>>>
    @@ <<<<77, 92, 138, 126, 230, 74, 12, 133, 20, 199, 214, 187, 45, 128, 216, 131, 87, 78, 227, 9, 237, 185, 105, 198, 178, 58, 29, 129, 69, 176, 1, 136>>,
         <<3, 227, 244, 140, 109, 253, 77, 66, 184, 75, 192, 63, 17, 98, 88, 230, 119, 229, 123, 199, 235, 73, 170, 182, 151, 204, 131, 38, 16, 138, 197, 119, 92>>, 9>> :>
         <<<<121, 226, 73, 153, 223, 133, 212, 126, 248, 199, 184, 13, 150, 170, 19, 69, 151, 2, 111, 213, 40, 35, 50, 139, 114, 13, 185, 132, 16, 61, 241, 81>>,
         <<2, 30, 182, 203, 96, 91, 230, 152, 248, 92, 217, 152, 174, 27, 19, 141, 58, 211, 36, 112, 112, 156, 38, 175, 36, 87, 119, 241, 76, 172, 8, 221, 205>>>>
    @@ <<<<137, 210, 226, 17, 128, 54, 163, 105, 44, 132, 39, 222, 154, 188, 145, 229, 115, 243, 193, 132, 239, 226, 9, 117, 175, 191, 88, 191, 40, 92, 42, 22>>,
         <<3, 234, 141, 128, 165, 173, 26, 219, 142, 5, 169, 125, 143, 51, 222, 44, 231, 102, 157, 94, 209, 245, 29, 14, 39, 29, 133, 191, 4, 180, 174, 217, 162>>, 0>> :>
         <<<<179, 198, 87, 86, 11, 70, 186, 74, 159, 238, 66, 89, 40, 147, 54, 54, 249, 75, 140, 158, 121, 111, 127, 30, 241, 72, 182, 182, 122, 21, 161, 204>>,
         <<3, 199, 31, 209, 35, 77, 46, 19, 113, 57, 91, 136, 137, 169, 199, 230, 236, 232, 35, 246, 244, 66, 21, 231, 127, 205, 10, 15, 149, 118, 186, 135, 186>>>>
    @@ <<<<137, 210, 226, 17, 128, 54, 163, 105, 44, 132, 39, 222, 154, 188, 145, 229, 115, 243, 193, 132, 239, 226, 9, 117, 175, 191, 88, 191, 40, 92, 42, 22>>,
         <<3, 234, 141, 128, 165, 173, 26, 219, 142, 5, 169, 125, 143, 51, 222, 44, 231, 102, 157, 94, 209, 245, 29, 14, 39, 29, 133, 191, 4, 180, 174, 217, 162>>, 1>> :>
         <<<<72, 201, 233, 94, 213, 121, 222, 22, 174, 235, 163, 71, 169, 69, 154, 70, 237, 84, 15, 132, 219, 254, 178, 238, 222, 185, 204, 181, 4, 17, 52, 42>>,
         <<2, 175, 216, 18, 56, 245, 253, 65, 246, 23, 86, 95, 117, 219, 75, 186, 116, 183, 80, 92, 249, 235, 83, 31, 190, 251, 250, 212, 76, 168, 15, 148, 149>>>>
    @@ <<<<137, 210, 226, 17, 128, 54, 163, 105, 44, 132, 39, 222, 154, 188, 145, 229, 115, 243, 193, 132, 239, 226, 9, 117, 175, 191, 88, 191, 40, 92, 42, 22>>,
         <<3, 234, 141, 128, 165, 173, 26, 219, 142, 5, 169, 125, 143, 51, 222, 44, 231, 102, 157, 94, 209, 245, 29, 14, 39, 29, 133, 191, 4, 180, 174, 217, 162>>, 2>> :>
         <<<<174, 31, 56, 238, 80, 6, 37, 73, 99, 233, 139, 163, 34, 24, 87, 43, 101, 76, 221, 205, 190, 17, 30, 44, 130, 227, 176, 198, 91, 167, 79, 202>>,
         <<2, 174, 184, 67, 58, 191, 5, 108, 137, 156, 199, 53, 240, 124, 77, 209, 175, 194, 117, 74, 228, 36, 64, 80, 39, 67, 12, 225, 62, 218, 21, 216, 240>>>>

\* ------------------------------------------------------------------------
\* BIP-32 extended public keys (bitcoin::util::bip32), as used by xpub.rs
\* ------------------------------------------------------------------------
\* ChildNumber::from(u32): the top bit of the big-endian word is the hardened flag
ChildNumber_from(b) ==
    [hardened |-> b[1] >= 128,
     index |-> (b[1] % 128) * 16777216 + b[2] * 65536 + b[3] * 256 + b[4]]

ChildNumber_bytes(cn) ==
    <<(cn.index \div 16777216) + (IF cn.hardened THEN 128 ELSE 0),
      (cn.index \div 65536) % 256, (cn.index \div 256) % 256, cn.index % 256>>

Normal(i) == [hardened |-> FALSE, index |-> i]
Hardened(i) == [hardened |-> TRUE, index |-> i]

\* PublicKey::from_slice of 33 bytes: the parity byte is 02 or 03 and the
\* x coordinate that follows is that of a point of the curve
PublicKey_valid(pk) ==
    /\ Len(pk) = 33
    /\ pk[1] \in {2, 3}
    /\ secp256k1_on_curve[SubSeq(pk, 2, 33)]

\* ExtendedPubKey::from_str: the parser the faux xpub string is handed to
ExtendedPubKey_from_str(s) ==
    LET d == from_check(s) IN
    IF d.tag = "Err" THEN d
    ELSE LET data == d.val IN
    IF Len(data) # PayloadLen THEN Err([kind |-> "InvalidLength", len |-> Len(data)])
    ELSE IF SubSeq(data, 1, 4) \notin {<<4, 136, 178, 30>>, <<4, 53, 135, 207>>}
    THEN Err([kind |-> "InvalidVersion", bytes |-> SubSeq(data, 1, 4)])
    ELSE IF ~PublicKey_valid(SubSeq(data, 46, 78)) THEN Err([kind |-> "Other"])
    ELSE Ok([network |-> IF SubSeq(data, 1, 4) = <<4, 136, 178, 30>>
                         THEN "Bitcoin" ELSE "Testnet",
             depth |-> data[5],
             parent_fingerprint |-> SubSeq(data, 6, 9),
             child_number |-> ChildNumber_from(SubSeq(data, 10, 13)),
             chain_code |-> SubSeq(data, 14, 45),
             public_key |-> SubSeq(data, 46, 78)])

\* ExtendedPubKey's Display: the 78 bytes under the network's plain prefix
ExtendedPubKey_to_string(xpub) ==
    check_encode_slice(
        (IF xpub.network = "Bitcoin" THEN <<4, 136, 178, 30>> ELSE <<4, 53, 135, 207>>)
        \o <<xpub.depth>> \o xpub.parent_fingerprint
        \o ChildNumber_bytes(xpub.child_number) \o xpub.chain_code \o xpub.public_key)

\* ------------------------------------------------------------------------
\* XyzPubKey::from_str and the string serializer (util/xpub.rs)
\* ------------------------------------------------------------------------
\* the bytes from_str re-encodes and hands to the BIP-32 parser
faux_data(data, network) == get_xpub_p2pkh_version(network) \o SubSeq(data, 5, Len(data))

\* a faulty variant: the version lookup ahead of the length check
from_str_BadOrder(inp) ==
    LET d == from_check(inp) IN
    IF d.tag = "Err" THEN d
    ELSE LET data == d.val
             v == parse_xyz_version(SubSeq(data, 1, 4)) IN
    IF v.tag = "Err" THEN v
    ELSE IF Len(data) # PayloadLen
    THEN Err([kind |-> "InvalidLength", len |-> Len(data)])
    ELSE LET x == ExtendedPubKey_from_str(check_encode_slice(faux_data(data, v.val.network))) IN
         IF x.tag = "Err" THEN x
         ELSE Ok([script_type |-> v.val.script_type, xpub |-> x.val])

from_str(inp) ==
    LET d == from_check(inp) IN
    IF d.tag = "Err" THEN d
    ELSE LET data == d.val IN
    IF Len(data) # PayloadLen
    THEN Err([kind |-> "InvalidLength", len |-> Len(data)])
    ELSE LET v == parse_xyz_version(SubSeq(data, 1, 4)) IN
    IF v.tag = "Err" THEN v
    ELSE LET x == ExtendedPubKey_from_str(check_encode_slice(faux_data(data, v.val.network))) IN
         IF x.tag = "Err" THEN x
         ELSE Ok([script_type |-> v.val.script_type, xpub |-> x.val])

\* a variant that splices the SLIP-132 prefix of (network, script type) back in
to_string_Tagged(xyzpub) ==
    LET s == ExtendedPubKey_to_string(xyzpub.xpub)
        tag == CHOOSE v \in {<<4, 136, 178, 30>>, <<4, 178, 71, 70>>, <<4, 157, 124, 178>>,
                            <<4, 53, 135, 207>>, <<4, 95, 28, 246>>, <<4, 74, 82, 98>>} :
                   parse_xyz_version(v).val =
                       [network |-> IF xyzpub.xpub.network = "Bitcoin"
                                    THEN "Bitcoin" ELSE "Testnet",
                        script_type |-> xyzpub.script_type]
    IN check_encode_slice(tag \o SubSeq(s.payload, 5, Len(s.payload)))

\* impl_string_serializer!(XyzPubKey, xyzpub, xyzpub.xpub.to_string())
to_string(xyzpub) == ExtendedPubKey_to_string(xyzpub.xpub)

\* ------------------------------------------------------------------------
\* BIP-32 public derivation and the descriptor engine (rust-bitcoin,
\* rust-miniscript), as the bridge and its tests use them
\* ------------------------------------------------------------------------
\* ExtendedPubKey::fingerprint: the first four bytes of the HASH160 of the
\* public key
fingerprint(xpub) == SubSeq(hash160[xpub.public_key], 1, 4)

\* ExtendedPubKey::ckd_pub: a hardened index cannot be derived; a normal
\* index gives the CKDpub child, one level down, under the parent's
\* fingerprint
ckd_pub(xpub, cn) ==
    IF cn.hardened THEN Err([kind |-> "CannotDeriveFromHardenedKey"])
    ELSE LET child == CKDpub[<<xpub.chain_code, xpub.public_key, cn.index>>] IN
         Ok([network |-> xpub.network,
             depth |-> xpub.depth + 1,
             parent_fingerprint |-> fingerprint(xpub),
             child_number |-> cn,
             chain_code |-> child[1],
             public_key |-> child[2]])

\* ExtendedPubKey::derive_pub: ckd_pub along the path, left to right
RECURSIVE derive_pub(_, _)
derive_pub(xpub, path) ==
    IF path = <<>> THEN Ok(xpub)
    ELSE LET c == ckd_pub(xpub, Head(path)) IN
         IF c.tag = "Err" THEN c ELSE derive_pub(c.val, Tail(path))

\* Descriptor::derive(index): a wildcard key gets the index appended to its
\* path and stops being a wildcard; any other key is left alone
desc_derive(d, cn) ==
    IF d.variant \in {"Pkh", "Wpkh", "ShWpkh"} /\ d.key.kind = "XPub" /\ d.key.is_wildcard
    THEN [d EXCEPT !.key.derivation_path = Append(@, cn), !.key.is_wildcard = FALSE]
    ELSE d

\* Address::p2pkh, Address::p2wpkh and Address::p2shwpkh: the payload of
\* the address over a public key
address_of(variant, pk, network) ==
    CASE variant = "Pkh" ->
             [network |-> network, payload |-> "PubkeyHash", hash |-> hash160[pk]]
      [] variant = "Wpkh" ->
             [network |-> network, payload |-> "WitnessProgram", hash |-> hash160[pk]]
      [] variant = "ShWpkh" ->
             [network |-> network, payload |-> "ScriptHash",
              hash |-> hash160_p2wpkh[hash160[pk]]]

\* Descriptor::address(network) of a single-key descriptor: the address of
\* the variant over the key derived along the key record's path
desc_address(d, network) ==
    IF d.variant \notin {"Pkh", "Wpkh", "ShWpkh"} THEN None
    ELSE IF d.key.kind = "SinglePub"
    THEN Some(address_of(d.variant, d.key.key, network))
    ELSE LET k == derive_pub(d.key.xkey, d.key.derivation_path) IN
         IF k.tag = "Err" THEN None
         ELSE Some(address_of(d.variant, k.val.public_key, network))

\* Display of a descriptor: wrapper, [origin], the key in its xpub/tpub
\* string form, the path steps, and /* for a wildcard
desc_to_string(d) ==
    IF d.variant \notin {"Pkh", "Wpkh", "ShWpkh"} THEN [wrapper |-> "wsh(multi())"]
    ELSE IF d.key.kind = "SinglePub"
    THEN [wrapper |-> d.variant, key |-> d.key.key]
    ELSE [wrapper |-> d.variant,
          origin |-> d.key.origin,
          key |-> ExtendedPubKey_to_string(d.key.xkey),
          path |-> d.key.derivation_path,
          wildcard |-> d.key.is_wildcard]

\* ------------------------------------------------------------------------
\* The descriptor bridge (util/xpub.rs)
\* ------------------------------------------------------------------------
XPubKey(origin, xkey, derivation_path, is_wildcard) ==
    [kind |-> "XPub", origin |-> origin, xkey |-> xkey,
     derivation_path |-> derivation_path, is_wildcard |-> is_wildcard]

\* impl From<&ExtendedPubKey> for Bip32Origin
Bip32Origin_from(xpub) ==
    IF xpub.depth > 0
    THEN <<xpub.parent_fingerprint, <<xpub.child_number>> >>
    ELSE <<fingerprint(xpub), <<>> >>

\* a faulty variant: Bip32Origin::from as the origin at every depth
as_descriptor_AlwaysOrigin(self, derivation_path) ==
    [variant |-> CASE self.script_type = "P2pkh" -> "Pkh"
                   [] self.script_type = "P2wpkh" -> "Wpkh"
                   [] self.script_type = "P2shP2wpkh" -> "ShWpkh",
     key |-> XPubKey(Some(Bip32Origin_from(self.xpub)), self.xpub, derivation_path, TRUE)]

\* a faulty variant: the two segwit variants exchanged
as_descriptor_SwapSegwit(self, derivation_path) ==
    [variant |-> CASE self.script_type = "P2pkh" -> "Pkh"
                   [] self.script_type = "P2wpkh" -> "ShWpkh"
                   [] self.script_type = "P2shP2wpkh" -> "Wpkh",
     key |-> XPubKey(IF self.xpub.depth > 0
                     THEN Some(<<self.xpub.parent_fingerprint, <<self.xpub.child_number>> >>)
                     ELSE None,
                     self.xpub, derivation_path, TRUE)]

\* a faulty variant: is_wildcard left false
as_descriptor_NotWildcard(self, derivation_path) ==
    [variant |-> CASE self.script_type = "P2pkh" -> "Pkh"
                   [] self.script_type = "P2wpkh" -> "Wpkh"
                   [] self.script_type = "P2shP2wpkh" -> "ShWpkh",
     key |-> XPubKey(IF self.xpub.depth > 0
                     THEN Some(<<self.xpub.parent_fingerprint, <<self.xpub.child_number>> >>)
                     ELSE None,
                     self.xpub, derivation_path, FALSE)]

as_descriptor(self, derivation_path) ==
    LET bip32_origin ==
            IF self.xpub.depth > 0
            THEN Some(<<self.xpub.parent_fingerprint, <<self.xpub.child_number>> >>)
            ELSE None
        desc_key == XPubKey(bip32_origin, self.xpub, derivation_path, TRUE)
    IN [variant |-> CASE self.script_type = "P2pkh" -> "Pkh"
                      [] self.script_type = "P2wpkh" -> "Wpkh"
                      [] self.script_type = "P2shP2wpkh" -> "ShWpkh",
        key |-> desc_key]

\* a variant that refuses every non-empty trailing path
try_from_desc_EmptyPathOnly(d) ==
    IF d.variant \notin {"Pkh", "Wpkh", "ShWpkh"} THEN None
    ELSE IF d.key.kind # "XPub" THEN None
    ELSE IF ~d.key.is_wildcard \/ d.key.derivation_path # <<>> THEN None
    ELSE Some([script_type |-> CASE d.variant = "Pkh" -> "P2pkh"
                                 [] d.variant = "Wpkh" -> "P2wpkh"
                                 [] d.variant = "ShWpkh" -> "P2shP2wpkh",
               xpub |-> d.key.xkey])

\* XyzPubKey::try_from_desc: a ranged single-key p2*pkh descriptor over an
\* xpub becomes the XyzPubKey of the xpub derived along the key record's path
try_from_desc(d) ==
    IF d.variant \notin {"Pkh", "Wpkh", "ShWpkh"} THEN None
    ELSE IF d.key.kind # "XPub" THEN None
    ELSE IF ~d.key.is_wildcard THEN None
    ELSE LET k == derive_pub(d.key.xkey, d.key.derivation_path) IN
         IF k.tag = "Err" THEN None
         ELSE Some([script_type |-> CASE d.variant = "Pkh" -> "P2pkh"
                                      [] d.variant = "Wpkh" -> "P2wpkh"
                                      [] d.variant = "ShWpkh" -> "P2shP2wpkh",
                    xpub |-> k.val])

\* XyzPubKey::derive_address: the address of the index-th child through the
\* key's own empty-path descriptor
derive_address(self, index, network) ==
    desc_address(desc_derive(as_descriptor(self, <<>>), Normal(index)), network)

\* ------------------------------------------------------------------------
\* Inputs
\* ------------------------------------------------------------------------
Fill(n, b) == [i \in 1..n |-> b]

TableVersions ==
    {<<4, 136, 178, 30>>, <<4, 178, 71, 70>>, <<4, 157, 124, 178>>,
     <<4, 53, 135, 207>>, <<4, 95, 28, 246>>, <<4, 74, 82, 98>>}

\* the table's prefixes, the all-zero prefix and the xprv prefix 0488ADE4
Versions == TableVersions \cup {<<0, 0, 0, 0>>, <<4, 136, 173, 228>>}

\* depth, parent fingerprint, child number, chain code, public key: 74 bytes
Body(depth, fp, cn, cc, pk) == <<depth>> \o fp \o cn \o cc \o pk

Bodies ==
    {\* the master key xpub661MyMw...
     Body(0, <<0, 0, 0, 0>>, <<0, 0, 0, 0>>, xpub661_chain_code, xpub661_public_key),
     \* its child 0, xpub68VHDuZ...
     Body(1, <<81, 151, 3, 42>>, <<0, 0, 0, 0>>, xpub68VH_chain_code, xpub68VH_public_key),
     \* the hardened child 2' at depth 3, xpub6D4BDPc...
     Body(3, <<190, 245, 162, 249>>, <<128, 0, 0, 2>>,
          xpub6D4B_chain_code, xpub6D4B_public_key),
     \* parity byte 04: not a compressed key
     Body(0, <<0, 0, 0, 0>>, <<0, 0, 0, 0>>, xpub661_chain_code,
          <<4>> \o Tail(xpub661_public_key)),
     \* parity byte 03 over an x coordinate that is on no point of the curve
     Body(0, <<0, 0, 0, 0>>, <<0, 0, 0, 0>>, xpub661_chain_code,
          <<3>> \o Fill(32, 10))}

\* the payload cut or padded to n bytes
Resize(data, n) ==
    IF n <= Len(data) THEN SubSeq(data, 1, n) ELSE data \o Fill(n - Len(data), 0)

Texts ==
    {[payload |-> Resize(v \o b, n), checksum |-> c] :
        v \in Versions, b \in Bodies,
        n \in {PayloadLen - 1, PayloadLen, PayloadLen + 1}, c \in BOOLEAN}

\* the extended keys a descriptor string can carry
XKeys == {r.val.xpub : r \in {q \in {from_str(t) : t \in Texts} : q.tag = "Ok"}}

ChildNumbers == {Normal(i) : i \in 0..MaxIndex} \cup {Hardened(0)}

Paths == UNION {[1..n -> ChildNumbers] : n \in 0..MaxPathLen}

\* no origin, the single hop above the key, the key's own fingerprint, or
\* the longer origin a wallet exports
Origins(xkey) ==
    {None,
     Some(<<xkey.parent_fingerprint, <<xkey.child_number>> >>),
     Some(<<fingerprint(xkey), <<>> >>),
     Some(<<<<222, 173, 190, 239>>, <<Hardened(84), Hardened(0)>> >>)}

\* the descriptors a descriptor string can parse to
DescInputs ==
    {[variant |-> v, key |-> XPubKey(o, k, p, w)] :
        v \in {"Pkh", "Wpkh", "ShWpkh"},
        o \in UNION {Origins(x) : x \in XKeys},
        k \in XKeys, p \in Paths, w \in BOOLEAN}
    \cup {[variant |-> v, key |-> [kind |-> "SinglePub", key |-> raw_public_key]] :
            v \in {"Pkh", "Wpkh", "ShWpkh"}}
    \cup {[variant |-> "Wsh",
           key |-> XPubKey(None, k, <<>>, TRUE)] : k \in XKeys}

NotRun == [tag |-> "NotRun"]

\* ------------------------------------------------------------------------
\* The codec and the bridge as a state machine
\* ------------------------------------------------------------------------
\* wait_blockchain_sync has not been called
SyncIdle ==
    /\ sync_pc = "poll" /\ sync_info = None /\ sync_result = [tag |-> "NotRun"]
    /\ sync_polls = 0 /\ progress_tx = FALSE /\ progress_alive = TRUE
    /\ progress_sent = 0

\* the thread has been spawned and has not run yet
DebounceIdle ==
    /\ pc = "top" /\ queue = 0 /\ elapsed = 0 /\ waited = 0
    /\ tx_alive = TRUE /\ rx_alive = TRUE
    /\ sent = 0 /\ received = 0 /\ fresh = 0 /\ forwarded = 0
    /\ cause = [kind |-> "none"] /\ pending = FALSE

\* a run starts from one input: a string to parse as an [xyz]pub, or the
\* descriptor a descriptor string parsed to
CodecInit ==
    /\ op = "init" /\ res = NotRun /\ out = None /\ xyz = None
    /\ desc_of = None /\ conv = NotRun /\ desc_rt = None /\ addr = None
    /\ \/ text \in {Some(s) : s \in Texts} /\ desc = None
       \/ text = None /\ desc \in {Some(d) : d \in DescInputs}

Init == CodecInit /\ DebounceIdle /\ duration = 0 /\ SyncIdle

\* text.parse::<XyzPubKey>()
Parse ==
    /\ text # None /\ res = NotRun
    /\ op' = "from_str"
    /\ res' = from_str(text.val)
    /\ xyz' = IF from_str(text.val).tag = "Ok" THEN Some(from_str(text.val).val) ELSE None
    /\ UNCHANGED <<text, out, desc, desc_of, conv, desc_rt, addr>>
    /\ UNCHANGED deb_vars /\ UNCHANGED sync_vars

\* xyzpub.to_string()
Serialize ==
    /\ xyz # None
    /\ op' = "to_string"
    /\ out' = Some(to_string(xyz.val))
    /\ UNCHANGED <<text, res, xyz, desc, desc_of, conv, desc_rt, addr>>
    /\ UNCHANGED deb_vars /\ UNCHANGED sync_vars

\* xyzpub.as_descriptor(path)
AsDescriptor(path) ==
    /\ xyz # None
    /\ op' = "as_descriptor"
    /\ desc' = Some(as_descriptor(xyz.val, path))
    /\ desc_of' = Some([key |-> xyz.val, path |-> path])
    /\ conv' = NotRun /\ desc_rt' = None /\ addr' = None
    /\ UNCHANGED <<text, res, out, xyz>>
    /\ UNCHANGED deb_vars /\ UNCHANGED sync_vars

\* XyzPubKey::try_from_desc(&desc)
TryFromDesc ==
    /\ desc # None
    /\ op' = "try_from_desc"
    /\ conv' = try_from_desc(desc.val)
    /\ desc_rt' = None /\ addr' = None
    /\ UNCHANGED <<text, res, out, xyz, desc, desc_of>>
    /\ UNCHANGED deb_vars /\ UNCHANGED sync_vars

\* xyzpub.as_descriptor([][..].into()) on the key try_from_desc returned
RoundTrip ==
    /\ conv.tag = "Some"
    /\ op' = "round_trip"
    /\ desc_rt' = Some(as_descriptor(conv.val, <<>>))
    /\ addr' = None
    /\ UNCHANGED <<text, res, out, xyz, desc, desc_of, conv>>
    /\ UNCHANGED deb_vars /\ UNCHANGED sync_vars

\* the three addresses the tests compare for one index and network
DeriveAddress(index, network) ==
    /\ desc # None /\ conv.tag = "Some" /\ desc_rt # None
    /\ op' = "derive_address"
    /\ addr' = Some([index |-> index, network |-> network,
                     by_key |-> derive_address(conv.val, index, network),
                     by_desc |-> desc_address(desc_derive(desc.val, Normal(index)), network),
                     by_rt |-> desc_address(desc_derive(desc_rt.val, Normal(index)), network)])
    /\ UNCHANGED <<text, res, out, xyz, desc, desc_of, conv, desc_rt>>
    /\ UNCHANGED deb_vars /\ UNCHANGED sync_vars

Next ==
    \/ Parse
    \/ Serialize
    \/ \E p \in Paths : AsDescriptor(p)
    \/ TryFromDesc
    \/ RoundTrip
    \/ \E i \in 0..MaxIndex, n \in NetworkSet : DeriveAddress(i, n)

Spec == Init /\ [][Next]_vars

\* ------------------------------------------------------------------------
\* debounce_sender (util/mod.rs): the background thread and its environment
\* ------------------------------------------------------------------------
CodecIdle ==
    /\ op = "init" /\ text = None /\ res = NotRun /\ out = None /\ xyz = None
    /\ desc = None /\ desc_of = None /\ conv = NotRun /\ desc_rt = None /\ addr = None

InitDebounce == CodecIdle /\ DebounceIdle /\ duration \in 0..MaxDuration /\ SyncIdle

\* let tick_start = Instant::now();
TickStart ==
    /\ pc = "top"
    /\ pc' = "recv"
    /\ elapsed' = 0
    /\ UNCHANGED <<duration, queue, waited, tx_alive, rx_alive, sent, received,
                   fresh, forwarded, cause, pending>>
    /\ UNCHANGED codec_vars /\ UNCHANGED sync_vars

\* debounce_rx.recv() returned Ok: if tick_start.elapsed() < duration the
\* thread starts debouncing, else it goes straight to forward_tx.send
RecvFirst ==
    /\ pc = "recv" /\ queue > 0
    /\ queue' = queue - 1
    /\ received' = received + 1
    /\ fresh' = fresh + 1
    /\ IF elapsed < duration
       THEN /\ pc' = "debounce" /\ waited' = 0 /\ UNCHANGED cause
       ELSE /\ pc' = "send" /\ UNCHANGED waited
            /\ cause' = [kind |-> "immediate", elapsed |-> elapsed]
    /\ UNCHANGED <<duration, elapsed, tx_alive, rx_alive, sent, forwarded, pending>>
    /\ UNCHANGED codec_vars /\ UNCHANGED sync_vars

\* debounce_rx.recv() returned Err: every sender is gone and nothing is queued
RecvFirstDisconnected ==
    /\ pc = "recv" /\ queue = 0 /\ ~tx_alive
    /\ pc' = "done"
    /\ UNCHANGED <<duration, queue, elapsed, waited, tx_alive, rx_alive, sent,
                   received, fresh, forwarded, cause, pending>>
    /\ UNCHANGED codec_vars /\ UNCHANGED sync_vars

\* recv_timeout(duration) returned Ok(()): continue, the wait starts over
DebounceRecv ==
    /\ pc = "debounce" /\ queue > 0
    /\ queue' = queue - 1
    /\ received' = received + 1
    /\ fresh' = fresh + 1
    /\ waited' = 0
    /\ UNCHANGED <<duration, pc, elapsed, tx_alive, rx_alive, sent, forwarded,
                   cause, pending>>
    /\ UNCHANGED codec_vars /\ UNCHANGED sync_vars

\* a faulty variant: the timeout fires before duration has passed
DebounceTimeout_Early ==
    /\ pc = "debounce" /\ queue = 0 /\ tx_alive
    /\ pc' = "send"
    /\ cause' = [kind |-> "timeout", waited |-> waited, queue |-> queue]
    /\ UNCHANGED <<duration, queue, elapsed, waited, tx_alive, rx_alive, sent,
                   received, fresh, forwarded, pending>>
    /\ UNCHANGED codec_vars /\ UNCHANGED sync_vars

\* recv_timeout(duration) returned Err(Timeout): nothing arrived for duration
DebounceTimeout ==
    /\ pc = "debounce" /\ queue = 0 /\ tx_alive
    /\ waited >= duration
    /\ pc' = "send"
    /\ cause' = [kind |-> "timeout", waited |-> waited, queue |-> queue]
    /\ UNCHANGED <<duration, queue, elapsed, waited, tx_alive, rx_alive, sent,
                   received, fresh, forwarded, pending>>
    /\ UNCHANGED codec_vars /\ UNCHANGED sync_vars

\* a faulty variant: Disconnected treated like Timeout
DebounceDisconnected_Flush ==
    /\ pc = "debounce" /\ queue = 0 /\ ~tx_alive
    /\ pc' = "send"
    /\ cause' = [kind |-> "timeout", waited |-> waited, queue |-> queue]
    /\ UNCHANGED <<duration, queue, elapsed, waited, tx_alive, rx_alive, sent,
                   received, fresh, forwarded, pending>>
    /\ UNCHANGED codec_vars /\ UNCHANGED sync_vars

\* recv_timeout(duration) returned Err(Disconnected): break 'outer
DebounceDisconnected ==
    /\ pc = "debounce" /\ queue = 0 /\ ~tx_alive
    /\ pc' = "done"
    /\ UNCHANGED <<duration, queue, elapsed, waited, tx_alive, rx_alive, sent,
                   received, fresh, forwarded, cause, pending>>
    /\ UNCHANGED codec_vars /\ UNCHANGED sync_vars

\* forward_tx.send(()) succeeded: back to the top of the loop
Forward ==
    /\ pc = "send" /\ rx_alive
    /\ forwarded' = forwarded + 1
    /\ fresh' = 0
    /\ pending' = FALSE
    /\ pc' = "top"
    /\ UNCHANGED <<duration, queue, elapsed, waited, tx_alive, rx_alive, sent,
                   received, cause>>
    /\ UNCHANGED codec_vars /\ UNCHANGED sync_vars

\* forward_tx.send(()) failed: break 'outer
ForwardFailed ==
    /\ pc = "send" /\ ~rx_alive
    /\ pc' = "done"
    /\ UNCHANGED <<duration, queue, elapsed, waited, tx_alive, rx_alive, sent,
                   received, fresh, forwarded, cause, pending>>
    /\ UNCHANGED codec_vars /\ UNCHANGED sync_vars

\* the steps of the spawned thread
ThreadStep ==
    \/ TickStart
    \/ RecvFirst
    \/ RecvFirstDisconnected
    \/ DebounceRecv
    \/ DebounceTimeout
    \/ DebounceDisconnected
    \/ Forward
    \/ ForwardFailed

\* a holder of the returned sender sends an event
SendEvent ==
    /\ tx_alive /\ pc # "done" /\ sent < MaxEvents
    /\ queue' = queue + 1
    /\ sent' = sent + 1
    /\ pending' = TRUE
    /\ UNCHANGED <<duration, pc, elapsed, waited, tx_alive, rx_alive, received,
                   fresh, forwarded, cause>>
    /\ UNCHANGED codec_vars /\ UNCHANGED sync_vars

\* the returned sender is dropped
DropSender ==
    /\ tx_alive
    /\ tx_alive' = FALSE
    /\ UNCHANGED <<duration, pc, queue, elapsed, waited, rx_alive, sent, received,
                   fresh, forwarded, cause, pending>>
    /\ UNCHANGED codec_vars /\ UNCHANGED sync_vars

\* the receiver of forward_tx is dropped
DropReceiver ==
    /\ rx_alive
    /\ rx_alive' = FALSE
    /\ UNCHANGED <<duration, pc, queue, elapsed, waited, tx_alive, sent, received,
                   fresh, forwarded, cause, pending>>
    /\ UNCHANGED codec_vars /\ UNCHANGED sync_vars

\* a second passes while the thread is blocked in recv or in recv_timeout;
\* both clocks stop counting once they have reached duration
Tick ==
    /\ \/ pc = "recv" /\ elapsed < duration
       \/ pc = "debounce" /\ waited < duration
    /\ elapsed' = IF pc = "recv" /\ elapsed < duration THEN elapsed + 1 ELSE elapsed
    /\ waited' = IF pc = "debounce" /\ waited < duration THEN waited + 1 ELSE waited
    /\ UNCHANGED <<duration, pc, queue, tx_alive, rx_alive, sent, received,
                   fresh, forwarded, cause, pending>>
    /\ UNCHANGED codec_vars /\ UNCHANGED sync_vars

NextDebounce ==
    \/ TickStart
    \/ RecvFirst
    \/ RecvFirstDisconnected
    \/ DebounceRecv
    \/ DebounceTimeout
    \/ DebounceDisconnected
    \/ Forward
    \/ ForwardFailed
    \/ SendEvent
    \/ DropSender
    \/ DropReceiver
    \/ Tick

SpecDebounce == InitDebounce /\ [][NextDebounce]_vars

\* the thread is scheduled whenever it can take a step, and time passes
SpecDebounceFair ==
    InitDebounce /\ [][NextDebounce]_vars /\ WF_vars(ThreadStep) /\ WF_vars(Tick)

\* ------------------------------------------------------------------------
\* RpcApiExt::wait_blockchain_sync (util/bitcoincore_ext.rs)
\* ------------------------------------------------------------------------
\* the fields of GetBlockchainInfoResult the loop reads
Infos ==
    [blocks : 0..MaxHeight, headers : 0..MaxHeight,
     initial_block_download : BOOLEAN, chain : {"main", "test", "regtest"}]

\* the test that breaks out of the loop with the info
synced(info) ==
    /\ info.blocks = info.headers
    /\ (~info.initial_block_download \/ info.chain = "regtest")

\* the call starts, with or without a progress sender
InitSync ==
    /\ CodecIdle /\ DebounceIdle /\ duration = 0
    /\ sync_pc = "poll" /\ sync_info = None /\ sync_result = [tag |-> "NotRun"]
    /\ sync_polls = 0 /\ progress_tx \in BOOLEAN /\ progress_alive = TRUE
    /\ progress_sent = 0

\* let info = self.get_blockchain_info()?; followed by the synced test
PollOk(info) ==
    /\ sync_pc = "poll" /\ sync_polls < MaxPolls
    /\ sync_polls' = sync_polls + 1
    /\ sync_info' = Some(info)
    /\ IF synced(info)
       THEN /\ sync_pc' = "returned"
            /\ sync_result' = [tag |-> "Ok", val |-> info, how |-> "synced"]
       ELSE /\ sync_pc' = "report"
            /\ UNCHANGED sync_result
    /\ UNCHANGED <<progress_tx, progress_alive, progress_sent>>
    /\ UNCHANGED codec_vars /\ UNCHANGED deb_vars

\* self.get_blockchain_info()? returned an RPC error
PollErr ==
    /\ sync_pc = "poll" /\ sync_polls < MaxPolls
    /\ sync_polls' = sync_polls + 1
    /\ sync_pc' = "returned"
    /\ sync_result' = [tag |-> "Err", polls |-> sync_polls + 1]
    /\ UNCHANGED <<sync_info, progress_tx, progress_alive, progress_sent>>
    /\ UNCHANGED codec_vars /\ UNCHANGED deb_vars

\* if let Some(ref progress_tx) = progress_tx: no sender, nothing to report
ReportNone ==
    /\ sync_pc = "report" /\ ~progress_tx
    /\ sync_pc' = "sleep"
    /\ UNCHANGED <<sync_info, sync_result, sync_polls, progress_tx, progress_alive,
                   progress_sent>>
    /\ UNCHANGED codec_vars /\ UNCHANGED deb_vars

\* progress_tx.send(progress) succeeded
ReportSent ==
    /\ sync_pc = "report" /\ progress_tx /\ progress_alive
    /\ progress_sent' = progress_sent + 1
    /\ sync_pc' = "sleep"
    /\ UNCHANGED <<sync_info, sync_result, sync_polls, progress_tx, progress_alive>>
    /\ UNCHANGED codec_vars /\ UNCHANGED deb_vars

\* progress_tx.send(progress).is_err(): break info
ReportFailed ==
    /\ sync_pc = "report" /\ progress_tx /\ ~progress_alive
    /\ sync_pc' = "returned"
    /\ sync_result' = [tag |-> "Ok", val |-> sync_info.val, how |-> "send failed"]
    /\ UNCHANGED <<sync_info, sync_polls, progress_tx, progress_alive, progress_sent>>
    /\ UNCHANGED codec_vars /\ UNCHANGED deb_vars

\* thread::sleep(WAIT_INTERVAL), then the next iteration
Sleep ==
    /\ sync_pc = "sleep"
    /\ sync_pc' = "poll"
    /\ sync_info' = None
    /\ UNCHANGED <<sync_result, sync_polls, progress_tx, progress_alive, progress_sent>>
    /\ UNCHANGED codec_vars /\ UNCHANGED deb_vars

\* the receiver of the progress sender is dropped
DropProgressReceiver ==
    /\ progress_tx /\ progress_alive /\ sync_pc # "returned"
    /\ progress_alive' = FALSE
    /\ UNCHANGED <<sync_pc, sync_info, sync_result, sync_polls, progress_tx, progress_sent>>
    /\ UNCHANGED codec_vars /\ UNCHANGED deb_vars

NextSync ==
    \/ \E info \in Infos : PollOk(info)
    \/ PollErr
    \/ ReportNone
    \/ ReportSent
    \/ ReportFailed
    \/ Sleep
    \/ DropProgressReceiver

SpecSync == InitSync /\ [][NextSync]_vars

\* ------------------------------------------------------------------------
\* Properties of the codec and the bridge
\* ------------------------------------------------------------------------
PlainPrefix(network) ==
    IF network = "Bitcoin" THEN <<4, 136, 178, 30>> ELSE <<4, 53, 135, 207>>

\* C1 (as stated): serializing the key parsed from a valid string s gives
\* back s itself, tagged prefix included, and parsing that string gives back
\* the key with its script type.
C1_StringRoundTrip ==
    (text # None /\ out # None) =>
        /\ out.val = text.val
        /\ from_str(out.val) = res

\* C1 (amended): serializing the key parsed from a valid string s gives s
\* with its 4-byte prefix replaced by the plain P2PKH prefix of the same
\* network (so s itself exactly when s is an xpub or a tpub), and parsing the
\* serialized string gives the same extended key with script type P2pkh.
C1_CanonicalRoundTrip ==
    (text # None /\ out # None) =>
        /\ out.val = [payload |-> PlainPrefix(res.val.xpub.network)
                                  \o SubSeq(text.val.payload, 5, PayloadLen),
                      checksum |-> TRUE]
        /\ (out.val = text.val) <=>
               (SubSeq(text.val.payload, 1, 4) \in {<<4, 136, 178, 30>>, <<4, 53, 135, 207>>})
        /\ from_str(out.val) = Ok([script_type |-> "P2pkh", xpub |-> res.val.xpub])

C1_Witness ==
    /\ op = "to_string" /\ text # None /\ out # None
    /\ SubSeq(text.val.payload, 1, 4) = <<4, 157, 124, 178>>
    /\ res.val.script_type = "P2shP2wpkh"

\* C2 (as stated): whenever try_from_desc(d) is Some(k), as_descriptor(k, [])
\* renders to the same string as d.
C2_DescRoundTrip ==
    (desc # None /\ desc_rt # None) =>
        desc_to_string(desc_rt.val) = desc_to_string(desc.val)

\* C2 (amended): whenever try_from_desc(d) is Some(k), and d has an empty
\* trailing path and carries no origin when its key has depth 0 or exactly
\* the origin (parent fingerprint, [child number]) when its key has depth > 0,
\* as_descriptor(k, []) renders to the same string as d.
C2_DescRoundTripSingleHop ==
    (/\ desc # None /\ desc_rt # None
     /\ desc.val.key.derivation_path = <<>>
     /\ desc.val.key.origin =
            IF desc.val.key.xkey.depth > 0
            THEN Some(<<desc.val.key.xkey.parent_fingerprint,
                        <<desc.val.key.xkey.child_number>> >>)
            ELSE None) =>
        desc_to_string(desc_rt.val) = desc_to_string(desc.val)

C2_Witness ==
    /\ op = "round_trip" /\ desc_of = None /\ desc_rt # None
    /\ desc.val.key.derivation_path = <<>>
    /\ desc.val.key.xkey.depth = 0
    /\ desc.val.key.origin = None

\* C3 (as stated): try_from_desc returns Some exactly for a Pkh/Wpkh/ShWpkh
\* descriptor over a wildcard xpub with an empty trailing path, and None for
\* every other descriptor.
C3_NegativeEligibility ==
    (desc # None /\ conv # NotRun) =>
        ((conv.tag = "Some") <=>
            /\ desc.val.variant \in {"Pkh", "Wpkh", "ShWpkh"}
            /\ desc.val.key.kind = "XPub"
            /\ desc.val.key.is_wildcard
            /\ desc.val.key.derivation_path = <<>>)

AllNormal(path) == \A i \in 1..Len(path) : ~path[i].hardened

\* C3 (amended): try_from_desc returns None for every multi-key/script
\* descriptor and for every single-key descriptor whose key is not a wildcard
\* xpub; for a Pkh/Wpkh/ShWpkh descriptor over a wildcard xpub whose trailing
\* path has only non-hardened steps (the empty path included) it returns Some,
\* with the variant's script type and the xpub derived along that path (the
\* descriptor's own xpub when the path is empty).
C3_Eligibility ==
    (desc # None /\ conv # NotRun) =>
        /\ (\/ desc.val.variant \notin {"Pkh", "Wpkh", "ShWpkh"}
            \/ desc.val.key.kind # "XPub"
            \/ ~desc.val.key.is_wildcard) => conv = None
        /\ (/\ desc.val.variant \in {"Pkh", "Wpkh", "ShWpkh"}
            /\ desc.val.key.kind = "XPub"
            /\ desc.val.key.is_wildcard
            /\ AllNormal(desc.val.key.derivation_path)) =>
               /\ conv.tag = "Some"
               /\ conv.val.script_type =
                      (CASE desc.val.variant = "Pkh" -> "P2pkh"
                         [] desc.val.variant = "Wpkh" -> "P2wpkh"
                         [] desc.val.variant = "ShWpkh" -> "P2shP2wpkh")
               /\ conv.val.xpub.depth =
                      desc.val.key.xkey.depth + Len(desc.val.key.derivation_path)
               /\ desc.val.key.derivation_path = <<>> =>
                      conv.val.xpub = desc.val.key.xkey
               /\ desc.val.key.derivation_path # <<>> =>
                      conv.val.xpub.child_number =
                          desc.val.key.derivation_path[Len(desc.val.key.derivation_path)]

C3_Witness ==
    /\ op = "try_from_desc" /\ desc_of = None
    /\ desc.val.variant = "Wpkh" /\ desc.val.key.kind = "XPub"
    /\ desc.val.key.is_wildcard
    /\ desc.val.key.derivation_path = <<Normal(0)>>
    /\ desc.val.key.xkey.public_key = xpub661_public_key
    /\ conv.tag = "Some" /\ conv.val.xpub.depth = 1
    /\ conv.val.script_type = "P2wpkh"
    /\ conv.val.xpub.parent_fingerprint = <<81, 151, 3, 42>>
    /\ conv.val.xpub.chain_code = xpub68VH_chain_code
    /\ conv.val.xpub.public_key = xpub68VH_public_key

\* C4: for every XyzPubKey k, try_from_desc(as_descriptor(k, [])) is Some(k')
\* with k'.xpub equal to k.xpub field for field and k'.script_type equal to
\* k.script_type.
C4_KeyDescKey ==
    (desc_of # None /\ desc_of.val.path = <<>> /\ conv # NotRun) =>
        /\ conv.tag = "Some"
        /\ conv.val.xpub = desc_of.val.key.xpub
        /\ conv.val.script_type = desc_of.val.key.script_type

C4_Witness ==
    /\ op = "try_from_desc" /\ desc_of # None /\ desc_of.val.path = <<>>
    /\ desc_of.val.key.script_type = "P2shP2wpkh"
    /\ desc_of.val.key.xpub.depth > 0
    /\ conv.tag = "Some"

\* C5: whenever try_from_desc(d) is Some(k), for every child index i and
\* network net the three addresses k.derive_address(i, net),
\* d.derive(i).address(net) and as_descriptor(k, []).derive(i).address(net)
\* exist and are the same address.
C5_AddressPreservation ==
    addr # None =>
        /\ addr.val.by_desc.tag = "Some"
        /\ addr.val.by_key = addr.val.by_desc
        /\ addr.val.by_rt = addr.val.by_desc

C5_Witness ==
    /\ op = "derive_address" /\ addr # None /\ desc_of = None
    /\ desc.val.variant = "Wpkh"
    /\ desc.val.key.derivation_path = <<Normal(0)>>
    /\ addr.val.index = 1
    /\ addr.val.by_key.tag = "Some"

\* C6: every descriptor built by as_descriptor(k, path) has is_wildcard = true,
\* the caller's path unchanged, k.xpub unchanged as its base key, an origin
\* exactly when k.xpub.depth > 0 and then (parent_fingerprint, [child_number]),
\* and the variant Pkh / Wpkh / ShWpkh for P2pkh / P2wpkh / P2shP2wpkh.
C6_DescriptorShape ==
    desc_of # None =>
        LET k == desc_of.val.key
            dk == desc.val.key IN
        /\ dk.kind = "XPub"
        /\ dk.is_wildcard = TRUE
        /\ dk.derivation_path = desc_of.val.path
        /\ dk.xkey = k.xpub
        /\ (dk.origin # None) <=> (k.xpub.depth > 0)
        /\ (k.xpub.depth > 0) =>
               dk.origin = Some(<<k.xpub.parent_fingerprint, <<k.xpub.child_number>> >>)
        /\ (k.script_type = "P2pkh") => desc.val.variant = "Pkh"
        /\ (k.script_type = "P2wpkh") => desc.val.variant = "Wpkh"
        /\ (k.script_type = "P2shP2wpkh") => desc.val.variant = "ShWpkh"

C6_Witness ==
    /\ op = "as_descriptor" /\ desc_of # None
    /\ desc_of.val.key.xpub.depth = 0
    /\ desc_of.val.path # <<>>
    /\ desc.val.key.origin = None

\* what the version table of the specification says about a prefix
TableEntry(version) ==
    CASE version = <<4, 136, 178, 30>>  -> <<"Bitcoin", "P2pkh">>
      [] version = <<4, 178, 71, 70>>   -> <<"Bitcoin", "P2wpkh">>
      [] version = <<4, 157, 124, 178>> -> <<"Bitcoin", "P2shP2wpkh">>
      [] version = <<4, 53, 135, 207>>  -> <<"Testnet", "P2pkh">>
      [] version = <<4, 95, 28, 246>>   -> <<"Testnet", "P2wpkh">>
      [] version = <<4, 74, 82, 98>>    -> <<"Testnet", "P2shP2wpkh">>

\* C7: a 78-byte payload parses only under one of the six table prefixes (and
\* under each of them when the BIP-32 parser accepts its key body); the key
\* carries the table's script type and the table's network, never Regtest; it
\* is the key the BIP-32 parser reads from the plain P2PKH prefix of that
\* network followed by bytes 4..78 of the payload unchanged; and distinct
\* prefixes stand for distinct (network, script type) pairs.
C7_VersionTable ==
    /\ (/\ text # None /\ res # NotRun
        /\ text.val.checksum /\ Len(text.val.payload) = PayloadLen) =>
         LET data == text.val.payload
             version == SubSeq(data, 1, 4) IN
         /\ res.tag = "Ok" => version \in TableVersions
         /\ (version \in TableVersions /\ PublicKey_valid(SubSeq(data, 46, 78))) =>
                res.tag = "Ok"
         /\ res.tag = "Ok" =>
                /\ <<res.val.xpub.network, res.val.script_type>> = TableEntry(version)
                /\ res.val.xpub.network # "Regtest"
                /\ ExtendedPubKey_from_str(
                       [payload |-> PlainPrefix(TableEntry(version)[1]) \o SubSeq(data, 5, 78),
                        checksum |-> TRUE]) = Ok(res.val.xpub)
                /\ res.val.xpub.depth = data[5]
                /\ res.val.xpub.parent_fingerprint = SubSeq(data, 6, 9)
                /\ res.val.xpub.chain_code = SubSeq(data, 14, 45)
                /\ res.val.xpub.public_key = SubSeq(data, 46, 78)
    /\ \A v, w \in TableVersions :
           /\ parse_xyz_version(v).tag = "Ok"
           /\ <<parse_xyz_version(v).val.network, parse_xyz_version(v).val.script_type>>
                  = TableEntry(v)
           /\ v # w => parse_xyz_version(v).val # parse_xyz_version(w).val

C7_Witness ==
    /\ op = "from_str" /\ text # None /\ res.tag = "Ok"
    /\ SubSeq(text.val.payload, 1, 4) = <<4, 95, 28, 246>>
    /\ res.val.script_type = "P2wpkh" /\ res.val.xpub.network = "Testnet"

\* C8: for an input that base58check-decodes to n bytes, from_str returns
\* InvalidLength(n) whenever n # 78, whatever the first 4 bytes are; when
\* n = 78 and the first 4 bytes are none of the six table prefixes it returns
\* the invalid-version error carrying those 4 bytes; and an error never
\* comes with an XyzPubKey.
C8_RejectionOrder ==
    (text # None /\ res # NotRun) =>
        /\ (text.val.checksum /\ Len(text.val.payload) # PayloadLen) =>
               res = Err([kind |-> "InvalidLength", len |-> Len(text.val.payload)])
        /\ (/\ text.val.checksum /\ Len(text.val.payload) = PayloadLen
            /\ SubSeq(text.val.payload, 1, 4) \notin TableVersions) =>
               res = Err([kind |-> "InvalidVersion",
                          bytes |-> SubSeq(text.val.payload, 1, 4)])
        /\ res.tag = "Err" => xyz = None
        /\ res.tag = "Ok" => xyz = Some(res.val)

C8_Witness ==
    /\ op = "from_str" /\ text # None /\ text.val.checksum
    /\ Len(text.val.payload) = PayloadLen + 1
    /\ SubSeq(text.val.payload, 1, 4) = <<0, 0, 0, 0>>
    /\ res = Err([kind |-> "InvalidLength", len |-> PayloadLen + 1])
    /\ xyz = None

\* ------------------------------------------------------------------------
\* Properties of debounce_sender
\* ------------------------------------------------------------------------
\* C9: the thread sends on forward_tx only (1) right after receiving an event
\* at least `duration` after tick_start (the previous emission or the thread's
\* start), or (2) after a recv_timeout that waited `duration` with nothing
\* arriving since the last received event; every emission has at least one
\* event received since the previous emission, so the number of forwarded
\* events never exceeds the number of events received.
C9_EmissionRule ==
    /\ [](forwarded <= received)
    /\ [](pc = "send" =>
            /\ fresh >= 1
            /\ \/ cause.kind = "immediate" /\ cause.elapsed >= duration
               \/ cause.kind = "timeout" /\ cause.waited >= duration /\ cause.queue = 0)
    /\ [][forwarded' # forwarded =>
            /\ pc = "send" /\ forwarded' = forwarded + 1 /\ fresh >= 1 /\ fresh' = 0]_vars
    /\ [][(pc # "send" /\ pc' = "send") =>
            /\ received' = received + (IF pc = "recv" THEN 1 ELSE 0)
            /\ pc = "recv" => (cause'.kind = "immediate" /\ elapsed >= duration)
            /\ pc # "recv" =>
                   (pc = "debounce" /\ cause'.kind = "timeout"
                    /\ waited >= duration /\ queue = 0)]_vars

C9_Witness ==
    /\ duration > 0 /\ forwarded = 2
    /\ cause.kind = "immediate" /\ cause.elapsed = duration
    /\ received = 3

\* C10: while the returned sender and the forward receiver stay connected,
\* every event sent is eventually followed by an emission, and every event
\* received is eventually covered by one (events stop after MaxEvents); an
\* event received while debouncing restarts the wait without emitting; once
\* the sender is dropped while the thread is debouncing, the thread consumes
\* what is queued and terminates without forwarding; with the forward
\* receiver dropped, the thread terminates at its next emission attempt
\* without forwarding; a terminated thread stays terminated.
C10_LivenessAndShutdown ==
    /\ pending ~> (~pending \/ ~tx_alive \/ ~rx_alive)
    /\ (queue > 0 \/ fresh > 0) ~> ((queue = 0 /\ fresh = 0) \/ ~tx_alive \/ ~rx_alive)
    /\ [][(pc = "debounce" /\ received' # received) =>
            (pc' = "debounce" /\ waited' = 0 /\ forwarded' = forwarded)]_vars
    /\ [][(pc = "debounce" /\ ~tx_alive) =>
            (pc' \in {"debounce", "done"} /\ forwarded' = forwarded)]_vars
    /\ (pc = "debounce" /\ ~tx_alive) ~> (pc = "done")
    /\ [][(pc = "send" /\ ~rx_alive) =>
            (pc' \in {"send", "done"} /\ forwarded' = forwarded)]_vars
    /\ (pc = "send" /\ ~rx_alive) ~> (pc = "done")
    /\ [][pc = "done" => (pc' = "done" /\ forwarded' = forwarded)]_vars

C10_Witness ==
    /\ pc = "done" /\ ~tx_alive /\ rx_alive
    /\ duration > 0 /\ forwarded = 1 /\ fresh > 0 /\ received = MaxEvents

\* ------------------------------------------------------------------------
\* Properties of wait_blockchain_sync
\* ------------------------------------------------------------------------
\* C11: whenever wait_blockchain_sync returns Ok(info), info.blocks equals
\* info.headers and the node is out of initial block download or on regtest,
\* also when a progress sender whose receiver was dropped is supplied; an RPC
\* error is returned as Err by the poll that met it, with no further polling.
C11_SyncedOnReturn ==
    /\ sync_result.tag = "Ok" =>
           /\ sync_result.val.blocks = sync_result.val.headers
           /\ (~sync_result.val.initial_block_download
               \/ sync_result.val.chain = "regtest")
    /\ sync_result.tag = "Err" =>
           (sync_pc = "returned" /\ sync_polls = sync_result.polls)

\* C11, what the loop does ensure: an Ok(info) that is not synced comes only
\* from a failed progress send, and carries the info of that iteration.
C11_SyncedUnlessSendFailed ==
    /\ (sync_result.tag = "Ok" /\ sync_result.how = "synced") =>
           /\ sync_result.val.blocks = sync_result.val.headers
           /\ (~sync_result.val.initial_block_download
               \/ sync_result.val.chain = "regtest")
    /\ (sync_result.tag = "Ok" /\ sync_result.how = "send failed") =>
           /\ progress_tx /\ ~progress_alive
           /\ sync_result.val = sync_info.val
    /\ sync_result.tag = "Err" =>
           (sync_pc = "returned" /\ sync_polls = sync_result.polls)

C11_SendFailedReached ==
    /\ sync_pc = "returned" /\ sync_result.tag = "Ok"
    /\ sync_result.how = "send failed"
    /\ sync_result.val.blocks < sync_result.val.headers
    /\ sync_polls > 1 /\ progress_sent > 0

====
